---- MODULE Spec2Model ----
(***************************************************************************)
(* A model of the DistributedCache core: the LRU and LRU-2 local stores,   *)
(* the consistent hash ring, the single-flight coalescer and the cache     *)
(* group.  Each subsystem has its own specification (SpecLRU2, SpecLevel,  *)
(* SpecSeq, SpecShard, SpecLRU, SpecRing, SpecRingGet, SpecSF, SpecGroup,  *)
(* SpecClose, SpecRegistry) over one shared set of variables; a            *)
(* specification leaves the other subsystems' variables at their initial   *)
(* values.                                                                 *)
(*                                                                         *)
(* Encoding.  A key is a number 1..NKeys standing for a one-byte string    *)
(* ("a", "b", ...); 0 is the empty string.  A value is a number 1..NVals   *)
(* standing for a byte slice of that many bytes, so value.Len() of v is v  *)
(* and two values are equal iff their numbers are; 0 is nil / empty.       *)
(* Time is counted in units of 100 ms.                                     *)
(***************************************************************************)
EXTENDS Integers, Sequences, FiniteSets, TLC

\* ------------------------------------------------------------------ bounds
NKeys == 3
NVals == 2
MaxTime == 3
\* The number of operations a behaviour issues.
MaxOps == 4
\* CapPerBucket and Level2Cap of the LRU-2 store under test (configuration).
CapPerBucket == 2
Level2Cap == 2
\* Expiration handed to SetWithExpiration by the store-level tests.
TTL == 1

Keys == 1..NKeys
Vals == 1..NVals

\* lru2Store.Set's "very large" expiration, 9999999999999999 ns, in 100 ms units.
DefaultExpiration == 99999999

VARIABLES
    now,        \* wall clock, time.Now()
    clock,      \* the LRU-2 virtual clock (package variable clock)
    clkI,       \* the clock updater's loop counter i (9 = in the last sleep)
    clkWake,    \* wall time at which the updater last woke up
    lru2,       \* one shard of an lru2Store: <<caches[idx][0], caches[idx][1]>>
    l2ret,      \* what the last lru2Store operation returned and evicted
    l2set,      \* history: the value of the most recent Set of each key (0: none)
    lru,        \* an lruCache
    lruDel,     \* the keys of the spawned "go c.Delete(key)" not yet run
    lret,       \* what the last lruCache operation returned and evicted
    lruUse,     \* history: the store's keys in the order of their last Set or Get
    ring,       \* a consistenthash.Map
    rret,       \* what the last ring operation returned
    ringReAdd,  \* history: Add was given a node that was already in the ring
    ringCollide,\* history: two virtual nodes in the ring had the same hash
    sfm,        \* singleflight.Group.m: key -> call (0: no entry)
    sfCalls,    \* the call records allocated so far: [val, err, done], and
                \* as history by, the index in sfLog of the Do that made it
    sfpc,       \* where each caller of Do is
    sfkey,      \* each caller's key
    sfc,        \* each caller's c (an index into sfCalls)
    sfInst,     \* history: the index in sfLog of each caller's current Do
    sfLog,      \* history: one record per Do call
    grp,        \* each node's Group: closed, expiration, peers
    cache,      \* each node's mainCache: type, closed, initialized, store
    owner,      \* each node's PeerPicker: the node it names for each key
    tasks,      \* goroutines started with "go" that have not run yet
    net,        \* peer requests sent and not yet received
    rpcs,       \* history: Peer.Set / Peer.Delete calls made for each client write
    glast,      \* history: the Group operation handled last
    gstored,    \* history: when each node last stored each key
    clCache,    \* closing a Group: g.closed and the fields of its Cache
    clProc,     \* closing a Group: where each goroutine is
    groups,     \* the registry: the Group registered under each name (0: none)
    gobjs,      \* the Groups NewGroup has made, in the order of their making
    reglast,    \* what the last registry operation returned
    groupsMu,   \* the registry lock is held by a call that never returns
    rgProc,     \* concurrent Map.Get calls: where each goroutine is
    rgRet,      \* history: the number of Get calls that returned a node
    rgCrash,    \* the runtime has stopped the process (fatal error)
    shStore,    \* an lru2Store's shards: BucketCount, mask, len(s.caches)
    shRet,      \* the shard index the last operation computed for its key
    nops        \* the number of operations issued so far

timeVars == <<now, clock, clkI, clkWake>>
lru2Vars == <<lru2, l2ret, l2set>>
lruVars == <<lru, lruDel, lret, lruUse>>
ringVars == <<ring, rret, ringReAdd, ringCollide>>
sfVars == <<sfm, sfCalls, sfpc, sfkey, sfc, sfInst, sfLog>>
grpVars == <<grp, cache, owner, tasks, net, rpcs, glast, gstored>>
closeVars == <<clCache, clProc>>
regVars == <<groups, gobjs, reglast, groupsMu>>
getVars == <<rgProc, rgRet, rgCrash>>
shVars == <<shStore, shRet>>
vars == <<now, clock, clkI, clkWake, lru2, l2ret, l2set, lru, lruDel, lret, lruUse,
          ring, rret, ringReAdd, ringCollide,
          sfm, sfCalls, sfpc, sfkey, sfc, sfInst, sfLog,
          grp, cache, owner, tasks, net, rpcs, glast, gstored,
          clCache, clProc, groups, gobjs, reglast, groupsMu, rgProc, rgRet, rgCrash,
          shStore, shRet, nops>>

\* An operation is issued: one more of the MaxOps a behaviour has.
Op == nops < MaxOps /\ nops' = nops + 1

\* ------------------------------------------------------------------ time
\* Now() of lru2.go: the current value of the virtual clock.
Now == clock

\* Wall time passes (the scheduler may delay anybody for any time).
Advance ==
    /\ now < MaxTime
    /\ now' = now + 1
    /\ UNCHANGED <<clock, clkI, clkWake, nops>>

\* The updater's inner loop: Sleep(100ms) has returned, clock += 100ms.
ClockInc ==
    /\ clkI < 9
    /\ now >= clkWake + 1
    /\ clock' = clock + 1
    /\ clkI' = clkI + 1
    /\ clkWake' = now
    /\ UNCHANGED <<now, nops>>

\* The updater's outer loop: the tenth sleep has returned, clock = time.Now().
ClockRealign ==
    /\ clkI = 9
    /\ now >= clkWake + 1
    /\ clock' = now
    /\ clkI' = 0
    /\ clkWake' = now
    /\ UNCHANGED <<now, nops>>

TimeStep == Advance \/ ClockInc \/ ClockRealign

\* The updater goroutine starts at package initialisation, so a store is
\* created at some phase of its loop: just realigned (0) or in the last sleep.
ClockPhases == {0, 9}

\* ------------------------------------------------------------------ LRU-2 level
\* Go's p, n = 0, 1 index a [2]uint16; tuples here are 1-based.
p == 1
n == 2

EmptyNode == [k |-> 0, v |-> 0, expireAt |-> 0]

Create(cap) ==
    [dlnk |-> [i \in 0..cap |-> <<0, 0>>],
     m    |-> [i \in 1..cap |-> EmptyNode],
     hmap |-> [k \in Keys |-> 0],
     last |-> 0,
     cap  |-> cap]

\* len(c.hmap)
HmapLen(c) == Cardinality({k \in Keys : c.hmap[k] # 0})

\* adjust without its fifth assignment: the slot that was first is not linked
\* back to the slot moved in front of it.
adjust_OneWay(c, idx, f, t) ==
    IF c.dlnk[idx][f] # 0
    THEN LET d0 == c.dlnk
             d1 == [d0 EXCEPT ![d0[idx][t]][f] = d0[idx][f]]
             d2 == [d1 EXCEPT ![d1[idx][f]][t] = d1[idx][t]]
             d3 == [d2 EXCEPT ![idx][f] = 0]
             d4 == [d3 EXCEPT ![idx][t] = d3[0][t]]
             d6 == [d4 EXCEPT ![0][t] = idx]
         IN  [c EXCEPT !.dlnk = d6]
    ELSE c

\* cache.adjust: the six assignments, each reading the links as the previous
\* ones left them.
adjust(c, idx, f, t) ==
    IF c.dlnk[idx][f] # 0
    THEN LET d0 == c.dlnk
             d1 == [d0 EXCEPT ![d0[idx][t]][f] = d0[idx][f]]
             d2 == [d1 EXCEPT ![d1[idx][f]][t] = d1[idx][t]]
             d3 == [d2 EXCEPT ![idx][f] = 0]
             d4 == [d3 EXCEPT ![idx][t] = d3[0][t]]
             d5 == [d4 EXCEPT ![d4[0][t]][f] = idx]
             d6 == [d5 EXCEPT ![0][t] = idx]
         IN  [c EXCEPT !.dlnk = d6]
    ELSE c

\* cache.put.  Result: the level, the status (1 added, 0 updated) and the
\* entries handed to onEvicted.
put(c, key, val, expireAt) ==
    IF c.hmap[key] # 0
    THEN LET idx == c.hmap[key]
             c1  == [c EXCEPT !.m[idx].v = val, !.m[idx].expireAt = expireAt]
         IN  [c |-> adjust(c1, idx, p, n), st |-> 0, ev |-> <<>>]
    ELSE IF c.last = c.cap
    THEN LET ti   == c.dlnk[0][p]
             tail == c.m[ti]
             h1   == [c.hmap EXCEPT ![tail.k] = 0]
             h2   == [h1 EXCEPT ![key] = ti]
             c1   == [c EXCEPT !.hmap = h2,
                               !.m[ti] = [k |-> key, v |-> val, expireAt |-> expireAt]]
         IN  [c  |-> adjust(c1, ti, p, n),
              st |-> 1,
              ev |-> IF tail.expireAt > 0 THEN <<[k |-> tail.k, v |-> tail.v]>> ELSE <<>>]
    ELSE LET l  == c.last + 1
             d1 == IF HmapLen(c) <= 0
                   THEN [c.dlnk EXCEPT ![0][p] = l]
                   ELSE [c.dlnk EXCEPT ![c.dlnk[0][n]][p] = l]
             d2 == [d1 EXCEPT ![l] = <<0, d1[0][n]>>]
             d3 == [d2 EXCEPT ![0][n] = l]
         IN  [c  |-> [c EXCEPT !.last = l,
                               !.m[l] = [k |-> key, v |-> val, expireAt |-> expireAt],
                               !.dlnk = d3,
                               !.hmap[key] = l],
              st |-> 1,
              ev |-> <<>>]

\* cache.get: the node (slot index, 0 for nil) and the status.
get(c, key) ==
    IF c.hmap[key] # 0
    THEN [c |-> adjust(c, c.hmap[key], p, n), idx |-> c.hmap[key], st |-> 1]
    ELSE [c |-> c, idx |-> 0, st |-> 0]

\* cache.del: tombstones a live entry and moves it to the tail.
del(c, key) ==
    IF c.hmap[key] # 0 /\ c.m[c.hmap[key]].expireAt > 0
    THEN LET idx == c.hmap[key]
             c1  == [c EXCEPT !.m[idx].expireAt = 0]
         IN  [c |-> adjust(c1, idx, n, p), idx |-> idx, st |-> 1,
              e |-> c.m[idx].expireAt]
    ELSE [c |-> c, idx |-> 0, st |-> 0, e |-> 0]

\* cache.walk: the live keys from the head of the list to its end.
RECURSIVE walkFrom(_, _, _)
walkFrom(c, idx, fuel) ==
    IF idx = 0 \/ fuel = 0 THEN <<>>
    ELSE (IF c.m[idx].expireAt > 0 THEN <<c.m[idx].k>> ELSE <<>>)
         \o walkFrom(c, c.dlnk[idx][n], fuel - 1)

walk(c) == walkFrom(c, c.dlnk[0][n], c.cap + 1)

\* ------------------------------------------------------------------ LRU-2 store
\* One shard s = <<admission level, main level>> (caches[idx][0], caches[idx][1]);
\* the store under test is configured with BucketCount = 1, so mask = 0 and
\* every key lands in shard 0.  Operations return the new shard, the result
\* and the entries handed to onEvicted.

\* lru2Store.delete
delete(s, key) ==
    LET d1 == del(s[1], key)
        d2 == del(s[2], key)
        deleted == d1.st > 0 \/ d2.st > 0
    IN  [s  |-> <<d1.c, d2.c>>,
         ok |-> deleted,
         ev |-> IF ~deleted THEN <<>>
                ELSE IF d1.idx # 0 /\ d1.c.m[d1.idx].v # 0
                THEN <<[k |-> key, v |-> d1.c.m[d1.idx].v]>>
                ELSE IF d2.idx # 0 /\ d2.c.m[d2.idx].v # 0
                THEN <<[k |-> key, v |-> d2.c.m[d2.idx].v]>>
                ELSE <<>>]

\* lru2Store._get on the given level (1-based: 2 is Go's level 1).
\* The live-and-unexpired test of line 274; its comparison is GetExpired.
\* The same test with a strict comparison: an entry would live one instant longer.
GetExpired_Strict(currentTime, expireAt) == currentTime > expireAt
GetExpired(currentTime, expireAt) == currentTime >= expireAt

_get(s, key, level, currentTime) ==
    LET g == get(s[level], key)
        s1 == [s EXCEPT ![level] = g.c]
    IN  IF g.st > 0 /\ g.idx # 0
        THEN IF g.c.m[g.idx].expireAt <= 0
                \/ GetExpired(currentTime, g.c.m[g.idx].expireAt)
             THEN [s |-> s1, idx |-> 0, st |-> 0]
             ELSE [s |-> s1, idx |-> g.idx, st |-> g.st]
        ELSE [s |-> s1, idx |-> 0, st |-> 0]

\* lru2Store.Get
Get(s, key, currentTime) ==
    LET d == del(s[1], key)
        s1 == [s EXCEPT ![1] = d.c]
    IN  IF d.st > 0
        THEN IF d.e > 0 /\ GetExpired(currentTime, d.e)
             THEN LET x == delete(s1, key)
                  IN  [s |-> x.s, v |-> 0, ok |-> FALSE, ev |-> x.ev]
             ELSE LET v1 == d.c.m[d.idx].v
                      q  == put(s1[2], key, v1, d.e)
                  IN  [s |-> [s1 EXCEPT ![2] = q.c], v |-> v1, ok |-> TRUE,
                       ev |-> q.ev]
        ELSE LET g == _get(s1, key, 2, currentTime)
             IN  IF g.st > 0 /\ g.idx # 0
                 THEN LET n2 == g.s[2].m[g.idx]
                      IN  IF n2.expireAt > 0 /\ GetExpired(currentTime, n2.expireAt)
                          THEN LET x == delete(g.s, key)
                               IN  [s |-> x.s, v |-> 0, ok |-> FALSE, ev |-> x.ev]
                          ELSE [s |-> g.s, v |-> n2.v, ok |-> TRUE, ev |-> <<>>]
                 ELSE [s |-> g.s, v |-> 0, ok |-> FALSE, ev |-> <<>>]

\* SetWithExpiration putting the entry into the main level.
SetWithExpiration_Main(s, key, value, expiration, currentTime) ==
    LET expireAt == IF expiration > 0 THEN currentTime + expiration ELSE 0
        q == put(s[2], key, value, expireAt)
    IN  [s |-> [s EXCEPT ![2] = q.c], ev |-> q.ev]

\* lru2Store.SetWithExpiration: the entry goes to the admission level.
SetWithExpiration(s, key, value, expiration, currentTime) ==
    LET expireAt == IF expiration > 0 THEN currentTime + expiration ELSE 0
        q == put(s[1], key, value, expireAt)
    IN  [s |-> [s EXCEPT ![1] = q.c], ev |-> q.ev]

\* lru2Store.Set
Set(s, key, value, currentTime) ==
    SetWithExpiration(s, key, value, DefaultExpiration, currentTime)

\* lru2Store.Delete
Delete(s, key) == delete(s, key)

\* Append to keys the members of more that keys does not hold yet.
RECURSIVE AppendNew(_, _)
AppendNew(keys, more) ==
    IF more = <<>> THEN keys
    ELSE LET k == Head(more)
         IN  AppendNew(IF \E i \in 1..Len(keys) : keys[i] = k
                       THEN keys ELSE Append(keys, k),
                       Tail(more))

\* Delete the keys of a list one after the other.
RECURSIVE DeleteAll(_, _)
DeleteAll(s, keys) ==
    IF keys = <<>> THEN [s |-> s, ev |-> <<>>]
    ELSE LET x == delete(s, Head(keys))
             r == DeleteAll(x.s, Tail(keys))
         IN  [s |-> r.s, ev |-> x.ev \o r.ev]

\* lru2Store.Clear: the live keys of both levels, then Delete of each.
Clear(s) == DeleteAll(s, AppendNew(walk(s[1]), walk(s[2])))

\* lru2Store.Len: one count per live entry of either level.
StoreLen(s) == Len(walk(s[1])) + Len(walk(s[2]))

\* The keys of a level whose entry is live and expired at currentTime.
RECURSIVE ExpiredOf(_, _, _)
ExpiredOf(c, keys, currentTime) ==
    IF keys = <<>> THEN <<>>
    ELSE LET e == c.m[c.hmap[Head(keys)]].expireAt
         IN  (IF e > 0 /\ currentTime >= e THEN <<Head(keys)>> ELSE <<>>)
             \o ExpiredOf(c, Tail(keys), currentTime)

\* One pass of lru2Store.cleanupLoop over the shard.
cleanupLoop(s, currentTime) ==
    DeleteAll(s, AppendNew(ExpiredOf(s[1], walk(s[1]), currentTime),
                           ExpiredOf(s[2], walk(s[2]), currentTime)))

\* newLRU2Cache, one shard.
newLRU2Cache == <<Create(CapPerBucket), Create(Level2Cap)>>

NoRet == [op |-> "none", key |-> 0, v |-> 0, ok |-> FALSE, ev |-> <<>>]

L2Set(key, value) ==
    LET r == Set(lru2, key, value, Now)
    IN  /\ Op
        /\ lru2' = r.s
        /\ l2ret' = [op |-> "set", key |-> key, v |-> value, ok |-> TRUE, ev |-> r.ev]
        /\ UNCHANGED <<l2set, timeVars, lruVars, ringVars, sfVars, grpVars, closeVars, regVars, getVars, shVars>>

L2SetWithExpiration(key, value, expiration) ==
    LET r == SetWithExpiration(lru2, key, value, expiration, Now)
    IN  /\ Op
        /\ lru2' = r.s
        /\ l2ret' = [op |-> "set", key |-> key, v |-> value, ok |-> TRUE, ev |-> r.ev]
        /\ UNCHANGED <<l2set, timeVars, lruVars, ringVars, sfVars, grpVars, closeVars, regVars, getVars, shVars>>

L2Get(key) ==
    LET r == Get(lru2, key, Now)
    IN  /\ Op
        /\ lru2' = r.s
        /\ l2ret' = [op |-> "get", key |-> key, v |-> r.v, ok |-> r.ok, ev |-> r.ev]
        /\ UNCHANGED <<l2set, timeVars, lruVars, ringVars, sfVars, grpVars, closeVars, regVars, getVars, shVars>>

L2Delete(key) ==
    LET r == Delete(lru2, key)
    IN  /\ Op
        /\ lru2' = r.s
        /\ l2ret' = [op |-> "delete", key |-> key, v |-> 0, ok |-> r.ok, ev |-> r.ev]
        /\ UNCHANGED <<l2set, timeVars, lruVars, ringVars, sfVars, grpVars, closeVars, regVars, getVars, shVars>>

L2Clear ==
    LET r == Clear(lru2)
    IN  /\ Op
        /\ lru2' = r.s
        /\ l2ret' = [op |-> "clear", key |-> 0, v |-> 0, ok |-> TRUE, ev |-> r.ev]
        /\ UNCHANGED <<l2set, timeVars, lruVars, ringVars, sfVars, grpVars, closeVars, regVars, getVars, shVars>>

L2Sweep ==
    LET r == cleanupLoop(lru2, Now)
    IN  /\ Op
        /\ lru2' = r.s
        /\ l2ret' = [op |-> "sweep", key |-> 0, v |-> 0, ok |-> TRUE, ev |-> r.ev]
        /\ UNCHANGED <<l2set, timeVars, lruVars, ringVars, sfVars, grpVars, closeVars, regVars, getVars, shVars>>

L2Time == TimeStep /\ UNCHANGED <<lru2Vars, lruVars, ringVars, sfVars, grpVars, closeVars, regVars, getVars, shVars>>

NextLRU2 ==
    \/ \E key \in Keys, value \in Vals : L2Set(key, value)
    \/ \E key \in Keys, value \in Vals, d \in {0, TTL} :
            L2SetWithExpiration(key, value, d)
    \/ \E key \in Keys : L2Get(key)
    \/ \E key \in Keys : L2Delete(key)
    \/ L2Clear
    \/ L2Sweep
    \/ L2Time

\* ---- one level on its own
\* put, get and del called on the admission level of the shard in any order
\* (the store itself calls them in the orders of Get, Set and Delete only).
\* The expireAt values handed to put: none (0) and the instants up to
\* MaxExpireAt.  One value is handed to it: the links and the map do not
\* depend on the values stored.
MaxExpireAt == 1

LevelOthers ==
    UNCHANGED <<l2set, timeVars, lruVars, ringVars, sfVars, grpVars, closeVars, regVars,
                getVars, shVars, nops>>

LevelPut(key, val, expireAt) ==
    LET r == put(lru2[1], key, val, expireAt)
    IN  /\ lru2' = [lru2 EXCEPT ![1] = r.c]
        /\ l2ret' = [op |-> "put", key |-> key, v |-> val, ok |-> r.st = 1, ev |-> r.ev]
        /\ LevelOthers

LevelGet(key) ==
    LET r == get(lru2[1], key)
    IN  /\ lru2' = [lru2 EXCEPT ![1] = r.c]
        /\ l2ret' = [op |-> "get", key |-> key,
                     v |-> IF r.idx = 0 THEN 0 ELSE r.c.m[r.idx].v,
                     ok |-> r.st = 1, ev |-> <<>>]
        /\ LevelOthers

LevelDel(key) ==
    LET r == del(lru2[1], key)
    IN  /\ lru2' = [lru2 EXCEPT ![1] = r.c]
        /\ l2ret' = [op |-> "del", key |-> key,
                     v |-> IF r.idx = 0 THEN 0 ELSE r.c.m[r.idx].v,
                     ok |-> r.st = 1, ev |-> <<>>]
        /\ LevelOthers

NextLevel ==
    \/ \E key \in Keys, expireAt \in 0..MaxExpireAt : LevelPut(key, 1, expireAt)
    \/ \E key \in Keys : LevelGet(key)
    \/ \E key \in Keys : LevelDel(key)

\* ---- Set, Get and Delete in any order
\* Any number of Sets (with the default expiration), Gets and Deletes on the
\* keys of the shard, the clock standing still.
SeqOthers ==
    UNCHANGED <<timeVars, lruVars, ringVars, sfVars, grpVars, closeVars, regVars,
                getVars, shVars, nops>>

SeqSet(key, value) ==
    LET r == Set(lru2, key, value, Now)
    IN  /\ lru2' = r.s
        /\ l2ret' = [op |-> "set", key |-> key, v |-> value, ok |-> TRUE, ev |-> r.ev]
        /\ l2set' = [l2set EXCEPT ![key] = value]
        /\ SeqOthers

SeqGet(key) ==
    LET r == Get(lru2, key, Now)
    IN  /\ lru2' = r.s
        /\ l2ret' = [op |-> "get", key |-> key, v |-> r.v, ok |-> r.ok, ev |-> r.ev]
        /\ UNCHANGED l2set
        /\ SeqOthers

SeqDelete(key) ==
    LET r == Delete(lru2, key)
    IN  /\ lru2' = r.s
        /\ l2ret' = [op |-> "delete", key |-> key, v |-> 0, ok |-> r.ok, ev |-> r.ev]
        /\ UNCHANGED l2set
        /\ SeqOthers

NextSeq ==
    \/ \E key \in Keys, value \in Vals : SeqSet(key, value)
    \/ \E key \in Keys : SeqGet(key)
    \/ \E key \in Keys : SeqDelete(key)

\* ------------------------------------------------------------------ LRU-2 shards
\* Keys here are strings of bytes; counts and masks are 16 bits wide, the hash
\* 32 bits.
MaxKeyLen == 5
KeyBytes == {97, 255}
Strings == UNION {[1..l -> KeyBytes] : l \in 0..MaxKeyLen}
\* The bucket counts tried: the small ones, and each power of two with its
\* neighbours.
SmallCounts == 17
BucketCounts ==
    {c \in 1..65535 :
        c <= SmallCounts \/ \E k \in 0..16 : c \in {2^k - 1, 2^k, 2^k + 1}}

\* Go's &, | and >> on unsigned numbers.
RECURSIVE BitAnd(_, _)
BitAnd(a, b) ==
    IF a = 0 \/ b = 0 THEN 0
    ELSE (a % 2) * (b % 2) + 2 * BitAnd(a \div 2, b \div 2)

RECURSIVE BitOr(_, _)
BitOr(a, b) ==
    IF a = 0 THEN b
    ELSE IF b = 0 THEN a
    ELSE (IF a % 2 = 1 \/ b % 2 = 1 THEN 1 ELSE 0) + 2 * BitOr(a \div 2, b \div 2)

Shr(a, k) == a \div (2^k)

\* An int32 is kept as its two 16-bit halves [hi, lo] (two's complement: it is
\* negative when hi >= 2^15).
\* hashBKRD: hash = hash*131 + int32(s[i]) in int32 arithmetic.
RECURSIVE hashFrom(_, _, _)
hashFrom(str, i, hash) ==
    IF i > Len(str) THEN hash
    ELSE LET lo == hash.lo * 131 + str[i]
             hi == hash.hi * 131 + lo \div 65536
         IN  hashFrom(str, i + 1, [hi |-> hi % 65536, lo |-> lo % 65536])

hashBKRD(str) == hashFrom(str, 1, [hi |-> 0, lo |-> 0])

Negative(hash) == hash.hi >= 32768

\* maskOfNextPowOf2 on a uint16.
maskOfNextPowOf2(cap) ==
    IF cap > 0 /\ BitAnd(cap, cap - 1) = 0 THEN cap - 1
    ELSE LET c1 == BitOr(cap, Shr(cap, 1))
             c2 == BitOr(c1, Shr(c1, 2))
             c3 == BitOr(c2, Shr(c2, 4))
         IN  BitOr(c3, Shr(c3, 8))

\* hashBKRD(key) & s.mask on int32 operands: int32(mask) has no bit above the
\* low 16, so the result has the low bits of the hash that the mask keeps.
ShardIndex(str, mask) == BitAnd(hashBKRD(str).lo, mask)

NoStore == [count |-> 0, mask |-> 0, shards |-> 0]
NoIndex == [op |-> "none", hash |-> [hi |-> 0, lo |-> 0], idx |-> 0, panic |-> FALSE]

\* newLRU2Cache with BucketCount = count: mask + 1 locks and shards are made,
\* the sum computed in uint16.
ShNew(count) ==
    /\ shStore = NoStore
    /\ shStore' = [count |-> count,
                   mask |-> maskOfNextPowOf2(count),
                   shards |-> (maskOfNextPowOf2(count) + 1) % 65536]
    /\ shRet' = NoIndex
    /\ UNCHANGED <<timeVars, lru2Vars, lruVars, ringVars, sfVars, grpVars,
                   closeVars, regVars, getVars, nops>>

\* The first statements of Get, SetWithExpiration and Delete: the index of the
\* key's shard and s.locks[idx], which panics for an index out of range.
ShLock(str) ==
    /\ shStore # NoStore
    /\ shRet' = [op |-> "lock", hash |-> hashBKRD(str),
                 idx |-> ShardIndex(str, shStore.mask),
                 panic |-> ShardIndex(str, shStore.mask) >= shStore.shards]
    /\ UNCHANGED <<timeVars, lru2Vars, lruVars, ringVars, sfVars, grpVars,
                   closeVars, regVars, getVars, shStore, nops>>

NextShard ==
    \/ \E count \in BucketCounts : ShNew(count)
    \/ \E str \in Strings : ShLock(str)

\* ------------------------------------------------------------------ LRU store
\* An lruCache c: list is the keys from Front (least recently used) to Back,
\* value[k] the entry's value (0: k is not in items), expires[k] the instant of
\* expiry (0: no entry in expires), mu whether the write lock is held.
MaxBytes == 4

\* len(key): every key of the model is a one-byte string.
KeyLen(key) == 1
\* Value.Len()
ValLen(value) == value

newLRUCache(maxBytes) ==
    [list |-> <<>>,
     value |-> [k \in Keys |-> 0],
     expires |-> [k \in Keys |-> 0],
     maxBytes |-> maxBytes,
     usedBytes |-> 0,
     mu |-> FALSE]

InItems(c, key) == c.value[key] # 0

\* list.Remove(elem) / list.MoveToBack(elem) of container/list, by key.
ListRemove(list, key) == SelectSeq(list, LAMBDA k : k # key)
MoveToBack(list, key) == Append(ListRemove(list, key), key)

\* removeElement giving back the bytes of the key only.
removeElement_KeyOnly(c, key) ==
    [c |-> [c EXCEPT !.list = ListRemove(c.list, key),
                     !.value[key] = 0,
                     !.expires[key] = 0,
                     !.usedBytes = c.usedBytes - KeyLen(key)],
     ev |-> <<[k |-> key, v |-> c.value[key]]>>]

\* lruCache.removeElement
removeElement(c, key) ==
    [c |-> [c EXCEPT !.list = ListRemove(c.list, key),
                     !.value[key] = 0,
                     !.expires[key] = 0,
                     !.usedBytes = c.usedBytes - (KeyLen(key) + ValLen(c.value[key]))],
     ev |-> <<[k |-> key, v |-> c.value[key]]>>]

\* time.Time.After
After(t, u) == t > u

\* The first loop of lruCache.evict: every entry of expires that is past.
RECURSIVE evictExpired(_, _, _)
evictExpired(c, keys, t) ==
    IF keys = {} THEN [c |-> c, ev |-> <<>>]
    ELSE LET key == CHOOSE k \in keys : \A j \in keys : k <= j
             x == IF c.expires[key] # 0 /\ After(t, c.expires[key]) /\ InItems(c, key)
                  THEN removeElement(c, key)
                  ELSE [c |-> c, ev |-> <<>>]
             r == evictExpired(x.c, keys \ {key}, t)
         IN  [c |-> r.c, ev |-> x.ev \o r.ev]

\* The second loop taking list.Back() instead of list.Front().
RECURSIVE evictLRU_Back(_)
evictLRU_Back(c) ==
    IF c.maxBytes > 0 /\ c.usedBytes > c.maxBytes /\ Len(c.list) > 0
    THEN LET x == removeElement(c, c.list[Len(c.list)])
             r == evictLRU_Back(x.c)
         IN  [c |-> r.c, ev |-> x.ev \o r.ev]
    ELSE [c |-> c, ev |-> <<>>]

\* The second loop of lruCache.evict: the Front goes until the bytes fit.
RECURSIVE evictLRU(_)
evictLRU(c) ==
    IF c.maxBytes > 0 /\ c.usedBytes > c.maxBytes /\ Len(c.list) > 0
    THEN LET x == removeElement(c, Head(c.list))
             r == evictLRU(x.c)
         IN  [c |-> r.c, ev |-> x.ev \o r.ev]
    ELSE [c |-> c, ev |-> <<>>]

\* lruCache.evict
evict(c, t) ==
    LET x == evictExpired(c, {k \in Keys : c.expires[k] # 0}, t)
        r == evictLRU(x.c)
    IN  [c |-> r.c, ev |-> x.ev \o r.ev]

\* lruCache.Delete
lruDelete(c, key) ==
    IF InItems(c, key)
    THEN LET x == removeElement(c, key) IN [c |-> x.c, ok |-> TRUE, ev |-> x.ev]
    ELSE [c |-> c, ok |-> FALSE, ev |-> <<>>]

\* lruCache.SetWithExpiration (value 0 is the nil Value).
lruSetWithExpiration(c, key, value, expiration, t) ==
    IF value = 0
    THEN LET x == lruDelete(c, key) IN [c |-> x.c, ev |-> x.ev]
    ELSE LET c1 == [c EXCEPT !.expires[key] =
                                 IF expiration > 0 THEN t + expiration ELSE 0]
         IN  IF InItems(c1, key)
             THEN [c |-> [c1 EXCEPT !.usedBytes = c1.usedBytes
                                        + (ValLen(value) - ValLen(c1.value[key])),
                                    !.value[key] = value,
                                    !.list = MoveToBack(c1.list, key)],
                   ev |-> <<>>]
             ELSE evict([c1 EXCEPT !.list = Append(c1.list, key),
                                   !.value[key] = value,
                                   !.usedBytes = c1.usedBytes
                                       + (KeyLen(key) + ValLen(value))],
                        t)

\* lruCache.Set
lruSet(c, key, value, t) == lruSetWithExpiration(c, key, value, 0, t)

\* lruCache.Get.  spawn: the expired branch starts "go c.Delete(key)".  The
\* hit branch takes the write lock for MoveToBack and returns without
\* releasing it; what it returns is (value, false).
lruGet(c, key, t) ==
    IF ~InItems(c, key)
    THEN [c |-> c, v |-> 0, ok |-> FALSE, spawn |-> {}]
    ELSE IF c.expires[key] # 0 /\ After(t, c.expires[key])
    THEN [c |-> c, v |-> 0, ok |-> FALSE, spawn |-> {key}]
    ELSE [c |-> [c EXCEPT !.list = MoveToBack(c.list, key), !.mu = TRUE],
          v |-> c.value[key], ok |-> FALSE, spawn |-> {}]

\* lruCache.Clear
lruClear(c) ==
    [c |-> [c EXCEPT !.list = <<>>,
                     !.value = [k \in Keys |-> 0],
                     !.expires = [k \in Keys |-> 0],
                     !.usedBytes = 0],
     ev |-> [i \in 1..Len(c.list) |-> [k |-> c.list[i], v |-> c.value[c.list[i]]]]]

\* The recency order after an operation: the keys still in the store in the
\* order of their last Set or Get, the key just set or read (0: none) last.
Used(use, c, key) ==
    LET kept == SelectSeq(use, LAMBDA k : InItems(c, k) /\ k # key)
    IN  IF key # 0 /\ InItems(c, key) THEN Append(kept, key) ELSE kept

\* Every operation starts by taking c.mu, which it cannot while a Get holds it.
LRUSetWithExpiration(key, value, expiration) ==
    LET r == lruSetWithExpiration(lru, key, value, expiration, now)
    IN  /\ ~lru.mu
        /\ Op
        /\ lru' = r.c
        /\ lret' = [op |-> "set", key |-> key, v |-> value, ok |-> TRUE, ev |-> r.ev]
        /\ lruUse' = Used(lruUse, r.c, key)
        /\ UNCHANGED <<timeVars, lru2Vars, ringVars, sfVars, grpVars, closeVars, regVars, lruDel, getVars, shVars>>

LRUSet(key, value) ==
    LET r == lruSet(lru, key, value, now)
    IN  /\ ~lru.mu
        /\ Op
        /\ lru' = r.c
        /\ lret' = [op |-> "set", key |-> key, v |-> value, ok |-> TRUE, ev |-> r.ev]
        /\ lruUse' = Used(lruUse, r.c, key)
        /\ UNCHANGED <<timeVars, lru2Vars, ringVars, sfVars, grpVars, closeVars, regVars, lruDel, getVars, shVars>>

LRUGet(key) ==
    LET r == lruGet(lru, key, now)
    IN  /\ ~lru.mu
        /\ Op
        /\ lru' = r.c
        /\ lruDel' = lruDel \cup r.spawn
        /\ lret' = [op |-> "get", key |-> key, v |-> r.v, ok |-> r.ok, ev |-> <<>>]
        /\ lruUse' = Used(lruUse, r.c, IF r.v # 0 THEN key ELSE 0)
        /\ UNCHANGED <<timeVars, lru2Vars, ringVars, sfVars, grpVars, closeVars, regVars, getVars, shVars>>

LRUDelete(key) ==
    LET r == lruDelete(lru, key)
    IN  /\ ~lru.mu
        /\ Op
        /\ lru' = r.c
        /\ lret' = [op |-> "delete", key |-> key, v |-> 0, ok |-> r.ok, ev |-> r.ev]
        /\ lruUse' = Used(lruUse, r.c, 0)
        /\ UNCHANGED <<timeVars, lru2Vars, ringVars, sfVars, grpVars, closeVars, regVars, lruDel, getVars, shVars>>

\* The goroutine spawned by an expired Get runs its Delete.
LRUAsyncDelete(key) ==
    LET r == lruDelete(lru, key)
    IN  /\ key \in lruDel
        /\ ~lru.mu
        /\ lru' = r.c
        /\ lruDel' = lruDel \ {key}
        /\ lret' = [op |-> "adelete", key |-> key, v |-> 0, ok |-> r.ok, ev |-> r.ev]
        /\ lruUse' = Used(lruUse, r.c, 0)
        /\ UNCHANGED <<timeVars, lru2Vars, ringVars, sfVars, grpVars, closeVars, regVars, nops, getVars, shVars>>

LRUClear ==
    LET r == lruClear(lru)
    IN  /\ ~lru.mu
        /\ Op
        /\ lru' = r.c
        /\ lret' = [op |-> "clear", key |-> 0, v |-> 0, ok |-> TRUE, ev |-> r.ev]
        /\ lruUse' = Used(lruUse, r.c, 0)
        /\ UNCHANGED <<timeVars, lru2Vars, ringVars, sfVars, grpVars, closeVars, regVars, lruDel, getVars, shVars>>

\* One tick of lruCache.cleanupLoop.
LRUSweep ==
    LET r == evict(lru, now)
    IN  /\ ~lru.mu
        /\ Op
        /\ lru' = r.c
        /\ lret' = [op |-> "sweep", key |-> 0, v |-> 0, ok |-> TRUE, ev |-> r.ev]
        /\ lruUse' = Used(lruUse, r.c, 0)
        /\ UNCHANGED <<timeVars, lru2Vars, ringVars, sfVars, grpVars, closeVars, regVars, lruDel, getVars, shVars>>

LRUTime == TimeStep /\ UNCHANGED <<lru2Vars, lruVars, ringVars, sfVars, grpVars, closeVars, regVars, getVars, shVars>>

NextLRU ==
    \/ \E key \in Keys, value \in Vals : LRUSet(key, value)
    \/ \E key \in Keys, value \in 0..NVals, d \in {0, TTL} :
            LRUSetWithExpiration(key, value, d)
    \/ \E key \in Keys : LRUGet(key)
    \/ \E key \in Keys : LRUDelete(key)
    \/ \E key \in Keys : LRUAsyncDelete(key)
    \/ LRUClear
    \/ LRUSweep
    \/ LRUTime

\* ------------------------------------------------------------------ hash ring
\* Nodes are numbered 1..NNodes; 0 is the empty node name "".
NNodes == 3
Nodes == 1..NNodes

\* The ring's configuration (Config).
DefaultReplicas == 3
MinReplicas == 2
MaxReplicas == 4
\* LoadBalanceThreshold, in percent.
LoadBalanceThreshold == 25
\* checkAndRebalance ignores a sample of fewer requests.
MinSample == 1000

\* Config.HashFunc applied to fmt.Sprintf("%s-%d", node, i): a hash function
\* into a ring of 16 positions.  Like any hash it has collisions: "3-2" and
\* "1-0" meet at 5.
HashNode(node, i) == (5 * node + 3 * i) % 16
\* Config.HashFunc applied to a key.
HashKey(key) == (7 * key) % 16
Hashes == 0..15

\* A Map m: keys the sorted hashes, hashMap[h] the node of hash h (0: no
\* entry), nodeReplicas[node] (0: no entry), nodeCounts[node] (-1: no entry;
\* node 0 is ""), locked: the mutex is held by a rebalance that waits for it.
New(minReplicas) ==
    [keys |-> <<>>,
     hashMap |-> [h \in Hashes |-> 0],
     nodeReplicas |-> [nd \in Nodes |-> 0],
     nodeCounts |-> [nd \in 0..NNodes |-> -1],
     totalRequests |-> 0,
     minReplicas |-> minReplicas,
     locked |-> FALSE]

\* sort.Ints
RECURSIVE InsertSorted(_, _)
InsertSorted(sorted, x) ==
    IF sorted = <<>> THEN <<x>>
    ELSE IF x <= Head(sorted) THEN <<x>> \o sorted
    ELSE <<Head(sorted)>> \o InsertSorted(Tail(sorted), x)

RECURSIVE SortInts(_)
SortInts(keys) ==
    IF keys = <<>> THEN <<>> ELSE InsertSorted(SortInts(Tail(keys)), Head(keys))

\* Map.addNode
RECURSIVE addNodeFrom(_, _, _, _)
addNodeFrom(m, node, i, replicas) ==
    IF i >= replicas THEN [m EXCEPT !.nodeReplicas[node] = replicas]
    ELSE addNodeFrom([m EXCEPT !.keys = Append(m.keys, HashNode(node, i)),
                               !.hashMap[HashNode(node, i)] = node],
                     node, i + 1, replicas)

addNode(m, node, replicas) == addNodeFrom(m, node, 0, replicas)

\* The loop of Map.Add over its arguments.
RECURSIVE AddEach(_, _)
AddEach(m, nodes) ==
    IF nodes = <<>> THEN m
    ELSE AddEach(IF Head(nodes) = 0 THEN m ELSE addNode(m, Head(nodes), DefaultReplicas),
                 Tail(nodes))

\* Map.Add without its final sort.Ints(m.keys).
MapAdd_NoSort(m, nodes) ==
    IF Len(nodes) = 0 THEN [m |-> m, err |-> TRUE]
    ELSE [m |-> AddEach(m, nodes), err |-> FALSE]

\* Map.Add: the map and whether an error is returned.
MapAdd(m, nodes) ==
    IF Len(nodes) = 0 THEN [m |-> m, err |-> TRUE]
    ELSE [m |-> [AddEach(m, nodes) EXCEPT !.keys = SortInts(@)], err |-> FALSE]

\* keys without the first occurrence of hash (the inner loop of Remove).
RECURSIVE RemoveFirst(_, _)
RemoveFirst(keys, hash) ==
    IF keys = <<>> THEN <<>>
    ELSE IF Head(keys) = hash THEN Tail(keys)
    ELSE <<Head(keys)>> \o RemoveFirst(Tail(keys), hash)

RECURSIVE removeFrom(_, _, _, _)
removeFrom(m, node, i, replicas) ==
    IF i >= replicas THEN m
    ELSE removeFrom([m EXCEPT !.hashMap[HashNode(node, i)] = 0,
                              !.keys = RemoveFirst(m.keys, HashNode(node, i))],
                    node, i + 1, replicas)

\* Remove leaving the node's last virtual node in the ring.
MapRemove_Short(m, node) ==
    IF node = 0 THEN [m |-> m, err |-> TRUE]
    ELSE IF m.nodeReplicas[node] = 0 THEN [m |-> m, err |-> TRUE]
    ELSE [m |-> [removeFrom(m, node, 0, m.nodeReplicas[node] - 1)
                    EXCEPT !.nodeReplicas[node] = 0, !.nodeCounts[node] = -1],
          err |-> FALSE]

\* Remove leaving the node's entry in nodeCounts.
MapRemove_KeepCount(m, node) ==
    IF node = 0 THEN [m |-> m, err |-> TRUE]
    ELSE IF m.nodeReplicas[node] = 0 THEN [m |-> m, err |-> TRUE]
    ELSE [m |-> [removeFrom(m, node, 0, m.nodeReplicas[node])
                    EXCEPT !.nodeReplicas[node] = 0],
          err |-> FALSE]

\* Map.Remove
MapRemove(m, node) ==
    IF node = 0 THEN [m |-> m, err |-> TRUE]
    ELSE IF m.nodeReplicas[node] = 0 THEN [m |-> m, err |-> TRUE]
    ELSE [m |-> [removeFrom(m, node, 0, m.nodeReplicas[node])
                    EXCEPT !.nodeReplicas[node] = 0, !.nodeCounts[node] = -1],
          err |-> FALSE]

\* sort.Search(len(keys), func(i) { return keys[i] >= hash }), 0-based.
RECURSIVE Search(_, _, _, _)
Search(keys, hash, i, j) ==
    IF i >= j THEN i
    ELSE LET h == (i + j) \div 2
         IN  IF ~(keys[h + 1] >= hash) THEN Search(keys, hash, h + 1, j)
             ELSE Search(keys, hash, i, h)

\* The node Map.Get picks for a key, "" (0) for an empty ring or key.
Owner(m, key) ==
    IF key = 0 \/ Len(m.keys) = 0 THEN 0
    ELSE LET i == Search(m.keys, HashKey(key), 0, Len(m.keys))
             idx == IF i = Len(m.keys) THEN 0 ELSE i
         IN  m.hashMap[m.keys[idx + 1]]

\* cnt calls of Map.Get for one key, one after the other.
MapGet(m, key, cnt) ==
    IF key = 0 \/ Len(m.keys) = 0 THEN [m |-> m, node |-> 0]
    ELSE LET node == Owner(m, key)
             old == IF m.nodeCounts[node] = -1 THEN 0 ELSE m.nodeCounts[node]
         IN  [m |-> [m EXCEPT !.nodeCounts[node] = old + cnt,
                              !.totalRequests = @ + cnt],
              node |-> node]

NodeCount(m) == Cardinality({nd \in Nodes : m.nodeReplicas[nd] # 0})
Counted(m) == {nd \in 0..NNodes : m.nodeCounts[nd] # -1}
Abs(x) == IF x < 0 THEN -x ELSE x

\* checkAndRebalance's test: with avg = totalRequests / N, some counted node
\* has |count - avg| / avg > LoadBalanceThreshold.
NeedsRebalance(m) ==
    /\ m.totalRequests >= MinSample
    /\ NodeCount(m) > 0
    /\ \E nd \in Counted(m) :
          100 * Abs(m.nodeCounts[nd] * NodeCount(m) - m.totalRequests)
              > LoadBalanceThreshold * m.totalRequests

Clamp(x, lo, hi) == IF x < lo THEN lo ELSE IF x > hi THEN hi ELSE x

\* The replica count rebalanceNodes computes for a node: with loadRatio =
\* count / avg, floor(replicas / loadRatio) above 1 and
\* floor(replicas * (2 - loadRatio)) otherwise, clamped.
newReplicas(m, node) ==
    LET count == m.nodeCounts[node]
        nn == NodeCount(m)
        cur == IF node = 0 THEN 0 ELSE m.nodeReplicas[node]
        raw == IF count * nn > m.totalRequests
               THEN (cur * m.totalRequests) \div (count * nn)
               ELSE (cur * (2 * m.totalRequests - count * nn)) \div m.totalRequests
    IN  Clamp(raw, m.minReplicas, MaxReplicas)

\* rebalanceNodes as it would run if Remove did not take the lock again: the
\* first node whose replica count changes is removed and added anew.
rebalanceNodes_Applied(m) ==
    LET changed == {nd \in Counted(m) \ {0} :
                       newReplicas(m, nd) # m.nodeReplicas[nd]}
        Redone(nd) == addNode(MapRemove(m, nd).m, nd, newReplicas(m, nd))
        m1 == IF changed = {} THEN m
              ELSE Redone(CHOOSE nd \in changed : \A x \in changed : nd <= x)
    IN  [m1 EXCEPT !.nodeCounts = [nd \in 0..NNodes |->
                                      IF m1.nodeCounts[nd] = -1 THEN -1 ELSE 0],
                   !.totalRequests = 0,
                   !.keys = SortInts(m1.keys)]

\* Map.rebalanceNodes.  It holds m.mu and, for the first node whose replica
\* count changes, calls m.Remove, which takes m.mu again: the pass then waits
\* on its own lock for ever, before it has changed anything.  Remove("")
\* returns its error before it asks for the lock, so an entry of nodeCounts
\* for "" is skipped.
rebalanceNodes(m) ==
    IF \E nd \in Counted(m) \ {0} : newReplicas(m, nd) # m.nodeReplicas[nd]
    THEN [m EXCEPT !.locked = TRUE]
    ELSE [m EXCEPT !.nodeCounts = [nd \in 0..NNodes |->
                                      IF m.nodeCounts[nd] = -1 THEN -1 ELSE 0],
                   !.totalRequests = 0,
                   !.keys = SortInts(m.keys)]

\* Map.checkAndRebalance
checkAndRebalance(m) == IF NeedsRebalance(m) THEN rebalanceNodes(m) ELSE m

\* Two different virtual nodes of the ring have the same hash.
Collides(m) ==
    \E n1, n2 \in Nodes : \E i1 \in 0..(m.nodeReplicas[n1] - 1) :
        \E i2 \in 0..(m.nodeReplicas[n2] - 1) :
            /\ <<n1, i1>> # <<n2, i2>>
            /\ HashNode(n1, i1) = HashNode(n2, i2)

\* Some node of the list is in the ring already, or is listed twice.
ReAdds(m, nodes) ==
    \/ \E i \in 1..Len(nodes) : nodes[i] # 0 /\ m.nodeReplicas[nodes[i]] # 0
    \/ \E i, j \in 1..Len(nodes) : i # j /\ nodes[i] # 0 /\ nodes[i] = nodes[j]

NoRingRet == [op |-> "none", node |-> 0, err |-> FALSE]

RingAdd(nodes) ==
    LET r == MapAdd(ring, nodes)
    IN  /\ ~ring.locked
        /\ Op
        /\ ring' = r.m
        /\ rret' = [op |-> "add", node |-> 0, err |-> r.err]
        /\ ringReAdd' = (ringReAdd \/ ReAdds(ring, nodes))
        /\ ringCollide' = (ringCollide \/ Collides(r.m))
        /\ UNCHANGED <<timeVars, lru2Vars, lruVars, sfVars, grpVars, closeVars, regVars, getVars, shVars>>

RingRemove(node) ==
    LET r == MapRemove(ring, node)
    IN  /\ ~ring.locked
        /\ Op
        /\ ring' = r.m
        /\ rret' = [op |-> "remove", node |-> node, err |-> r.err]
        /\ UNCHANGED <<timeVars, lru2Vars, lruVars, sfVars, grpVars, closeVars, regVars, ringReAdd, ringCollide, getVars, shVars>>

RingGet(key, cnt) ==
    LET r == MapGet(ring, key, cnt)
    IN  /\ ~ring.locked
        /\ Op
        /\ ring' = r.m
        /\ rret' = [op |-> "get", node |-> r.node, err |-> FALSE]
        /\ UNCHANGED <<timeVars, lru2Vars, lruVars, sfVars, grpVars, closeVars, regVars, ringReAdd, ringCollide, getVars, shVars>>

\* One tick of the balancer started by startBalancer.
RingTick ==
    /\ ~ring.locked
    /\ Op
    /\ ring' = checkAndRebalance(ring)
    /\ rret' = [op |-> "tick", node |-> 0, err |-> FALSE]
    /\ UNCHANGED <<timeVars, lru2Vars, lruVars, sfVars, grpVars, closeVars, regVars, ringReAdd, ringCollide, getVars, shVars>>

\* The argument lists of Add: none, one or two node names, "" included.
AddArgs == {<<>>} \cup {<<a>> : a \in 0..NNodes}
               \cup {<<a, b>> : a \in 0..NNodes, b \in 0..NNodes}

NextRing ==
    \/ \E nodes \in AddArgs : RingAdd(nodes)
    \/ \E node \in 0..NNodes : RingRemove(node)
    \/ \E key \in 0..NKeys, cnt \in {1, MinSample} : RingGet(key, cnt)
    \/ RingTick

\* ---- concurrent Gets
\* Goroutines that call Map.Get at the same time: Get holds m.mu.RLock(), which
\* any number of goroutines hold together.
NGetters == 2
Getters == 1..NGetters
MaxGets == 3

IdleGet == [pc |-> "idle", node |-> 0, count |-> 0]

\* Get, lines 120-143: "" for an empty key or an empty ring; otherwise the
\* read lock is taken and the node is looked up.
RGLookup(q, key) ==
    /\ ~rgCrash /\ ~ring.locked
    /\ rgProc[q].pc = "idle"
    /\ nops < MaxGets /\ nops' = nops + 1
    /\ rgProc' = [rgProc EXCEPT ![q] =
                     IF key = 0 \/ Len(ring.keys) = 0 THEN IdleGet
                     ELSE [pc |-> "read", node |-> Owner(ring, key), count |-> 0]]
    /\ UNCHANGED <<ring, rgRet, rgCrash>>

\* Another goroutine is inside an assignment to the nodeCounts map.
Writing(q) == \E o \in Getters \ {q} : rgProc[o].pc = "writing"

\* Get, line 144: count := m.nodeCounts[node].  A map read while another
\* goroutine writes the map is a data race; the runtime may stop the process
\* ("concurrent map read and map write").
RGRead(q, fatal) ==
    /\ ~rgCrash
    /\ rgProc[q].pc = "read"
    /\ fatal => Writing(q)
    /\ rgCrash' = fatal
    /\ rgProc' = [rgProc EXCEPT ![q].pc = "write",
                                ![q].count = IF ring.nodeCounts[rgProc[q].node] = -1
                                             THEN 0
                                             ELSE ring.nodeCounts[rgProc[q].node]]
    /\ UNCHANGED <<ring, rgRet, nops>>

\* Get, line 145: the assignment m.nodeCounts[node] = count + 1 begins.  Two
\* assignments at once may stop the process ("concurrent map writes").
RGAssign(q, fatal) ==
    /\ ~rgCrash
    /\ rgProc[q].pc = "write"
    /\ fatal => Writing(q)
    /\ rgCrash' = fatal
    /\ rgProc' = [rgProc EXCEPT ![q].pc = "writing"]
    /\ UNCHANGED <<ring, rgRet, nops>>

\* Get, line 145: the assignment is done.
RGAssigned(q) ==
    /\ ~rgCrash
    /\ rgProc[q].pc = "writing"
    /\ ring' = [ring EXCEPT !.nodeCounts[rgProc[q].node] = rgProc[q].count + 1]
    /\ rgProc' = [rgProc EXCEPT ![q].pc = "add"]
    /\ UNCHANGED <<rgRet, rgCrash, nops>>

\* Get, lines 146-148: atomic.AddInt64(&m.totalRequests, 1); return node (and
\* the deferred RUnlock).
RGReturn(q) ==
    /\ ~rgCrash
    /\ rgProc[q].pc = "add"
    /\ ring' = [ring EXCEPT !.totalRequests = @ + 1]
    /\ rgRet' = rgRet + 1
    /\ rgProc' = [rgProc EXCEPT ![q] = IdleGet]
    /\ UNCHANGED <<rgCrash, nops>>

RGOthers ==
    UNCHANGED <<timeVars, lru2Vars, lruVars, rret, ringReAdd, ringCollide,
                sfVars, grpVars, closeVars, regVars, shVars>>

NextRingGet ==
    \/ \E q \in Getters, key \in 0..NKeys : RGLookup(q, key) /\ RGOthers
    \/ \E q \in Getters, fatal \in BOOLEAN : RGRead(q, fatal) /\ RGOthers
    \/ \E q \in Getters, fatal \in BOOLEAN : RGAssign(q, fatal) /\ RGOthers
    \/ \E q \in Getters : RGAssigned(q) /\ RGOthers
    \/ \E q \in Getters : RGReturn(q) /\ RGOthers

\* ------------------------------------------------------------------ single flight
\* The goroutines that call Group.Do.
NCallers == 2
Callers == 1..NCallers
\* The keys they ask for, and how many Do calls are made in all.
NSFKeys == 2
SFKeys == 1..NSFKeys
MaxCalls == 3

\* What fn can return: (a value, nil) or (nil, an error).
FnResults == [val : Vals, err : {FALSE}] \cup {[val |-> 0, err |-> TRUE]}

\* The Do calls whose result does not exist yet: those that are about to
\* install a record or are running fn, and the waiters of such a call.
InFlight(k) ==
    {sfInst[c] : c \in {d \in Callers :
        /\ sfkey[d] = k
        /\ \/ sfpc[d] \in {"new", "call", "infn"}
           \/ sfpc[d] = "wait" /\ ~sfCalls[sfc[d]].done}}

\* Do, line 21: g.m.Load(key).  A caller that finds a record will wait on it;
\* one that finds none goes on to make its own.
SFLoad(c, k) ==
    /\ sfpc[c] = "idle"
    /\ Len(sfLog) < MaxCalls
    /\ UNCHANGED nops
    /\ sfkey' = [sfkey EXCEPT ![c] = k]
    /\ sfc' = [sfc EXCEPT ![c] = sfm[k]]
    /\ sfpc' = [sfpc EXCEPT ![c] = IF sfm[k] # 0 THEN "wait" ELSE "new"]
    /\ sfLog' = Append(sfLog, [key |-> k, must |-> InFlight(k), ret |-> FALSE,
                               val |-> 0, err |-> FALSE])
    /\ sfInst' = [sfInst EXCEPT ![c] = Len(sfLog) + 1]
    /\ UNCHANGED <<sfm, sfCalls>>

\* Do, lines 22-24: c.wg.Wait() has returned; return c.val, c.err.
SFWait(c) ==
    /\ sfpc[c] = "wait"
    /\ sfCalls[sfc[c]].done
    /\ sfLog' = [sfLog EXCEPT ![sfInst[c]].ret = TRUE,
                              ![sfInst[c]].val = sfCalls[sfc[c]].val,
                              ![sfInst[c]].err = sfCalls[sfc[c]].err]
    /\ sfpc' = [sfpc EXCEPT ![c] = "idle"]
    /\ UNCHANGED <<sfm, sfCalls, sfkey, sfc, sfInst, nops>>

\* Do, lines 28-30: c := &call{}; c.wg.Add(1); g.m.Store(key, c).
SFStore(c) ==
    /\ sfpc[c] = "new"
    /\ sfCalls' = Append(sfCalls, [val |-> 0, err |-> FALSE, done |-> FALSE,
                                   by |-> sfInst[c]])
    /\ sfc' = [sfc EXCEPT ![c] = Len(sfCalls) + 1]
    /\ sfm' = [sfm EXCEPT ![sfkey[c]] = Len(sfCalls) + 1]
    /\ sfpc' = [sfpc EXCEPT ![c] = "call"]
    /\ UNCHANGED <<sfkey, sfInst, sfLog, nops>>

\* Do, line 32: fn is entered.
SFCallFn(c) ==
    /\ sfpc[c] = "call"
    /\ sfpc' = [sfpc EXCEPT ![c] = "infn"]
    /\ UNCHANGED <<sfm, sfCalls, sfkey, sfc, sfInst, sfLog, nops>>

\* Do, line 32: fn returns and its result is stored in c.val, c.err.
SFFnReturn(c, res) ==
    /\ sfpc[c] = "infn"
    /\ sfCalls' = [sfCalls EXCEPT ![sfc[c]].val = res.val, ![sfc[c]].err = res.err]
    /\ sfpc' = [sfpc EXCEPT ![c] = "done"]
    /\ UNCHANGED <<sfm, sfkey, sfc, sfInst, sfLog, nops>>

\* Do, line 33: c.wg.Done().
SFDone(c) ==
    /\ sfpc[c] = "done"
    /\ sfCalls' = [sfCalls EXCEPT ![sfc[c]].done = TRUE]
    /\ sfpc' = [sfpc EXCEPT ![c] = "delete"]
    /\ UNCHANGED <<sfm, sfkey, sfc, sfInst, sfLog, nops>>

\* Do, line 35: g.m.Delete(key), whatever record the key has by now.
SFDelete(c) ==
    /\ sfpc[c] = "delete"
    /\ sfm' = [sfm EXCEPT ![sfkey[c]] = 0]
    /\ sfpc' = [sfpc EXCEPT ![c] = "ret"]
    /\ UNCHANGED <<sfCalls, sfkey, sfc, sfInst, sfLog, nops>>

\* Do, line 37: return c.val, c.err.
SFReturn(c) ==
    /\ sfpc[c] = "ret"
    /\ sfLog' = [sfLog EXCEPT ![sfInst[c]].ret = TRUE,
                              ![sfInst[c]].val = sfCalls[sfc[c]].val,
                              ![sfInst[c]].err = sfCalls[sfc[c]].err]
    /\ sfpc' = [sfpc EXCEPT ![c] = "idle"]
    /\ UNCHANGED <<sfm, sfCalls, sfkey, sfc, sfInst, nops>>

SFOthers == UNCHANGED <<timeVars, lru2Vars, lruVars, ringVars, grpVars, closeVars, regVars, getVars, shVars>>

NextSF ==
    \/ \E c \in Callers, k \in SFKeys : SFLoad(c, k) /\ SFOthers
    \/ \E c \in Callers : SFWait(c) /\ SFOthers
    \/ \E c \in Callers : SFStore(c) /\ SFOthers
    \/ \E c \in Callers : SFCallFn(c) /\ SFOthers
    \/ \E c \in Callers, res \in FnResults : SFFnReturn(c, res) /\ SFOthers
    \/ \E c \in Callers : SFDone(c) /\ SFOthers
    \/ \E c \in Callers : SFDelete(c) /\ SFOthers
    \/ \E c \in Callers : SFReturn(c) /\ SFOthers

\* ------------------------------------------------------------------ cache
\* The nodes of the cluster and the keys their clients use.
NPeers == 2
Peers == 1..NPeers
NGKeys == 1
GKeys == 1..NGKeys

\* NewCache: no store yet.  rl: a reader is stuck inside the store while it
\* holds c.mu.RLock.
NewCache(cacheType) ==
    [type |-> cacheType, closed |-> FALSE, initialized |-> FALSE,
     store |-> <<>>, rl |-> FALSE]

\* store.NewStore
NewStore(cacheType) ==
    IF cacheType = "lru2" THEN newLRU2Cache ELSE newLRUCache(MaxBytes)

\* The clock a store stamps and tests expiry with: the LRU-2 store reads
\* Now(), the LRU store time.Now().
StoreClock(cacheType) == IF cacheType = "lru2" THEN Now ELSE now

\* c.store.Get / Set / SetWithExpiration / Delete through the Store interface.
\* hung: the call waits for the LRU store's lock, which is never released.
StoreGet(c, key) ==
    LET Of2(r) == [s |-> r.s, v |-> r.v, ok |-> r.ok, hung |-> FALSE, spawn |-> {}]
        Of1(r) == [s |-> r.c, v |-> r.v, ok |-> r.ok, hung |-> FALSE,
                   spawn |-> r.spawn]
    IN  IF c.type = "lru2" THEN Of2(Get(c.store, key, Now))
        ELSE IF c.store.mu
        THEN [s |-> c.store, v |-> 0, ok |-> FALSE, hung |-> TRUE, spawn |-> {}]
        ELSE Of1(lruGet(c.store, key, now))

StoreSetWithExpiration(c, key, value, expiration) ==
    IF c.type = "lru2"
    THEN [s |-> SetWithExpiration(c.store, key, value, expiration, Now).s,
          hung |-> FALSE]
    ELSE IF c.store.mu
    THEN [s |-> c.store, hung |-> TRUE]
    ELSE [s |-> lruSetWithExpiration(c.store, key, value, expiration, now).c,
          hung |-> FALSE]

StoreSet(c, key, value) ==
    IF c.type = "lru2"
    THEN [s |-> Set(c.store, key, value, Now).s, hung |-> FALSE]
    ELSE IF c.store.mu
    THEN [s |-> c.store, hung |-> TRUE]
    ELSE [s |-> lruSet(c.store, key, value, now).c, hung |-> FALSE]

StoreDelete(c, key) ==
    LET Of2(r) == [s |-> r.s, ok |-> r.ok, hung |-> FALSE]
        Of1(r) == [s |-> r.c, ok |-> r.ok, hung |-> FALSE]
    IN  IF c.type = "lru2" THEN Of2(Delete(c.store, key))
        ELSE IF c.store.mu
        THEN [s |-> c.store, ok |-> FALSE, hung |-> TRUE]
        ELSE Of1(lruDelete(c.store, key))

\* Cache.ensureInitialized
ensureInitialized(c) ==
    IF c.initialized THEN c
    ELSE [c EXCEPT !.store = NewStore(c.type), !.initialized = TRUE]

\* Cache.Add
CacheAdd(c, key, value) ==
    LET Added(c1, r) ==
            [c |-> [c1 EXCEPT !.store = r.s], hung |-> r.hung, stored |-> ~r.hung]
        Ready(c1) == Added(c1, StoreSet(c1, key, value))
    IN  IF c.closed THEN [c |-> c, hung |-> FALSE, stored |-> FALSE]
        ELSE Ready(ensureInitialized(c))

\* time.Until
Until(t) == t - now

\* Cache.AddWithExpiration
CacheAddWithExpiration(c, key, value, expirationTime) ==
    LET expiration == Until(expirationTime)
        Added(c1, r) ==
            [c |-> [c1 EXCEPT !.store = r.s], hung |-> r.hung, stored |-> ~r.hung]
        Ready(c1) ==
            IF expiration <= 0
            THEN [c |-> c1, hung |-> FALSE, stored |-> FALSE]
            ELSE Added(c1, StoreSetWithExpiration(c1, key, value, expiration))
    IN  IF c.closed THEN [c |-> c, hung |-> FALSE, stored |-> FALSE]
        ELSE Ready(ensureInitialized(c))

\* Cache.Get
CacheGet(c, key) ==
    LET Found(r) ==
            [c |-> [c EXCEPT !.store = r.s, !.rl = c.rl \/ r.hung],
             v |-> IF r.ok THEN r.v ELSE 0, ok |-> r.ok, hung |-> r.hung,
             spawn |-> r.spawn]
    IN  IF c.closed \/ ~c.initialized
        THEN [c |-> c, v |-> 0, ok |-> FALSE, hung |-> FALSE, spawn |-> {}]
        ELSE Found(StoreGet(c, key))

\* Cache.Delete
CacheDelete(c, key) ==
    LET Deleted(r) ==
            [c |-> [c EXCEPT !.store = r.s, !.rl = c.rl \/ r.hung],
             ok |-> r.ok, hung |-> r.hung]
    IN  IF c.closed \/ ~c.initialized
        THEN [c |-> c, ok |-> FALSE, hung |-> FALSE]
        ELSE Deleted(StoreDelete(c, key))

\* Cache.Close.  It waits for c.mu behind a stuck reader.
CacheClose(c) ==
    IF c.closed THEN [c |-> c, hung |-> FALSE]
    ELSE IF c.rl THEN [c |-> [c EXCEPT !.closed = TRUE], hung |-> TRUE]
    ELSE [c |-> [c EXCEPT !.closed = TRUE, !.store = <<>>, !.initialized = FALSE],
          hung |-> FALSE]

\* The store's cleanup goroutine, one pass.
StoreSweep(c) ==
    IF c.type = "lru2" THEN cleanupLoop(c.store, Now).s
    ELSE evict(c.store, now).c

\* ------------------------------------------------------------------ group
\* A cluster of nodes, each with one Group of the same name.  A handler (a
\* client's Get, Set, Delete or Close, or a request from a peer) runs from
\* entry to return in one step; the goroutines it starts and the requests it
\* sends run in later steps.  The statement-by-statement interleavings of Do
\* and of Close are in the single flight and close sections.  The picker and
\* the server side of a peer request follow the design document: PickPeer
\* answers from the node's own view of the ring, and a request from a peer
\* is handed to the Group with from_peer in its context.
\* WithExpiration / NewGroup: a Group in a cluster (peers registered), with
\* its stats.loaderErrors.
NewGroup(d) == [closed |-> FALSE, expiration |-> d, peers |-> TRUE, loaderErrors |-> 0]

\* PeerPicker.PickPeer as node i sees the ring: the owner, and isSelf.
PickPeer(i, key) == [peer |-> owner[i][key], isSelf |-> owner[i][key] = i]

\* "go g.syncToPeers(ctx, op, key, value)"; w names the client write it is for.
SyncTask(i, op, key, value, w) ==
    [kind |-> "sync", node |-> i, op |-> op, key |-> key, val |-> value, w |-> w]

\* "go c.Delete(key)" of the LRU store's Get.
DeleteTasks(i, keys) ==
    {[kind |-> "lrudel", node |-> i, op |-> "", key |-> k, val |-> 0, w |-> 0] :
        k \in keys}

\* Group.Set and Group.load: the view goes to mainCache, with the group's TTL.
mainCacheAdd(g, c, key, view) ==
    IF g.expiration > 0
    THEN CacheAddWithExpiration(c, key, view, now + g.expiration)
    ELSE CacheAdd(c, key, view)

\* Group.Set as it would be without the test of isPeerRequest.
groupSet_Rebroadcast(i, key, value, fromPeer, w) ==
    LET Added(a) ==
            [c |-> a.c, err |-> "", hung |-> a.hung, stored |-> a.stored,
             tasks |-> IF ~a.hung /\ grp[i].peers
                       THEN {SyncTask(i, "set", key, value, w)} ELSE {}]
        Rejected(err) ==
            [c |-> cache[i], err |-> err, hung |-> FALSE, stored |-> FALSE,
             tasks |-> {}]
    IN  IF grp[i].closed THEN Rejected("closed")
        ELSE IF key = 0 THEN Rejected("key")
        ELSE IF value = 0 THEN Rejected("value")
        ELSE Added(mainCacheAdd(grp[i], cache[i], key, value))

\* Group.Set.  fromPeer: ctx.Value("from_peer") != nil.  err: "closed" is
\* ErrGroupClosed, "key" ErrKeyRequired, "value" ErrValueRequired.
groupSet(i, key, value, fromPeer, w) ==
    LET isPeerRequest == fromPeer
        Added(a) ==
            [c |-> a.c, err |-> "", hung |-> a.hung, stored |-> a.stored,
             tasks |-> IF ~a.hung /\ ~isPeerRequest /\ grp[i].peers
                       THEN {SyncTask(i, "set", key, value, w)} ELSE {}]
        Rejected(err) ==
            [c |-> cache[i], err |-> err, hung |-> FALSE, stored |-> FALSE,
             tasks |-> {}]
    IN  IF grp[i].closed THEN Rejected("closed")
        ELSE IF key = 0 THEN Rejected("key")
        ELSE IF value = 0 THEN Rejected("value")
        ELSE Added(mainCacheAdd(grp[i], cache[i], key, value))

\* Group.Delete testing the key before g.closed.
groupDelete_KeyFirst(i, key, fromPeer, w) ==
    LET isPeerRequest == fromPeer
        Deleted(d) ==
            [c |-> d.c, err |-> "", hung |-> d.hung, stored |-> FALSE,
             tasks |-> IF ~d.hung /\ ~isPeerRequest /\ grp[i].peers
                       THEN {SyncTask(i, "delete", key, 0, w)} ELSE {}]
        Rejected(err) ==
            [c |-> cache[i], err |-> err, hung |-> FALSE, stored |-> FALSE,
             tasks |-> {}]
    IN  IF key = 0 THEN Rejected("key")
        ELSE IF grp[i].closed THEN Rejected("closed")
        ELSE Deleted(CacheDelete(cache[i], key))

\* Group.Delete
groupDelete(i, key, fromPeer, w) ==
    LET isPeerRequest == fromPeer
        Deleted(d) ==
            [c |-> d.c, err |-> "", hung |-> d.hung, stored |-> FALSE,
             tasks |-> IF ~d.hung /\ ~isPeerRequest /\ grp[i].peers
                       THEN {SyncTask(i, "delete", key, 0, w)} ELSE {}]
        Rejected(err) ==
            [c |-> cache[i], err |-> err, hung |-> FALSE, stored |-> FALSE,
             tasks |-> {}]
    IN  IF grp[i].closed THEN Rejected("closed")
        ELSE IF key = 0 THEN Rejected("key")
        ELSE Deleted(CacheDelete(cache[i], key))

\* Peer.Get as the owner j answers it: Group.Get on j.  Should j's picker name
\* another node, j's own peer call comes back to the node that is waiting for
\* j inside Do and ends in the client's timeout, so j loads from its getter.
\* gres: what the getter returns (0: an error).  ok: the caller got a value.
\* lerr: the nodes whose loaderErrors goes up by one.
serveGet(j, key, gres) ==
    LET Loaded(cg, a) ==
            [c |-> a.c, ok |-> ~a.hung, v |-> gres, stored |-> a.stored,
             spawn |-> cg.spawn, lerr |-> {}]
        Looked(cg) ==
            IF cg.hung \/ (~cg.ok /\ gres = 0)
            THEN [c |-> cg.c, ok |-> FALSE, v |-> 0, stored |-> FALSE,
                  spawn |-> cg.spawn, lerr |-> IF cg.hung THEN {} ELSE {j}]
            ELSE IF cg.ok
            THEN [c |-> cg.c, ok |-> TRUE, v |-> cg.v, stored |-> FALSE,
                  spawn |-> cg.spawn, lerr |-> {}]
            ELSE Loaded(cg, mainCacheAdd(grp[j], cg.c, key, gres))
    IN  IF grp[j].closed
        THEN [c |-> cache[j], ok |-> FALSE, v |-> 0, stored |-> FALSE, spawn |-> {},
              lerr |-> {}]
        ELSE Looked(CacheGet(cache[j], key))

\* Group.load when Do returns an error, without the count in loaderErrors.
loadFailed_Uncounted(i, cs, sp, le) ==
    [cs |-> cs, val |-> 0, err |-> "getter", hung |-> FALSE,
     localHit |-> FALSE, getter |-> TRUE, stored |-> {}, spawn |-> sp,
     lerr |-> le]

\* Group.load when Do returns an error: loaderErrors goes up and the wrapped
\* error of loadData is returned; nothing goes to mainCache.
loadFailed(i, cs, sp, le) ==
    [cs |-> cs, val |-> 0, err |-> "getter", hung |-> FALSE,
     localHit |-> FALSE, getter |-> TRUE, stored |-> {}, spawn |-> sp,
     lerr |-> le \cup {i}]

\* Group.Get with load and loadData.  pres: the peer call gets through.
groupGet(i, key, gres, pres) ==
    LET pk == IF key = 0 THEN [peer |-> i, isSelf |-> TRUE] ELSE PickPeer(i, key)
        remote == grp[i].peers /\ ~pk.isSelf /\ pres
        Added(cs, value, peerHit, sp, st, le, a) ==
            [cs |-> [cs EXCEPT ![i] = a.c], val |-> value, err |-> "",
             hung |-> a.hung, localHit |-> FALSE, getter |-> ~peerHit,
             stored |-> (IF a.stored THEN {i} ELSE {}) \cup st, spawn |-> sp,
             lerr |-> le]
        Loaded(cs, value, peerHit, sp, st, le) ==
            IF ~peerHit /\ value = 0
            THEN loadFailed(i, cs, sp, le)
            ELSE Added(cs, value, peerHit, sp, st, le,
                       mainCacheAdd(grp[i], cs[i], key, value))
        Asked(cs, sp, sv) ==
            Loaded([cs EXCEPT ![pk.peer] = sv.c],
                   IF sv.ok THEN sv.v ELSE gres, sv.ok,
                   sp \cup DeleteTasks(pk.peer, sv.spawn),
                   IF sv.stored THEN {pk.peer} ELSE {}, sv.lerr)
        Looked(cg) ==
            IF cg.hung
            THEN [cs |-> [cache EXCEPT ![i] = cg.c], val |-> 0, err |-> "",
                  hung |-> TRUE, localHit |-> FALSE, getter |-> FALSE,
                  stored |-> {}, spawn |-> {}, lerr |-> {}]
            ELSE IF cg.ok
            THEN [cs |-> [cache EXCEPT ![i] = cg.c], val |-> cg.v, err |-> "",
                  hung |-> FALSE, localHit |-> TRUE, getter |-> FALSE,
                  stored |-> {}, spawn |-> DeleteTasks(i, cg.spawn), lerr |-> {}]
            ELSE IF remote
            THEN Asked([cache EXCEPT ![i] = cg.c], DeleteTasks(i, cg.spawn),
                       serveGet(pk.peer, key, gres))
            ELSE Loaded([cache EXCEPT ![i] = cg.c], gres, FALSE,
                        DeleteTasks(i, cg.spawn), {}, {})
        Rejected(err) ==
            [cs |-> cache, val |-> 0, err |-> err, hung |-> FALSE,
             localHit |-> FALSE, getter |-> FALSE, stored |-> {}, spawn |-> {},
             lerr |-> {}]
    IN  IF grp[i].closed THEN Rejected("closed")
        ELSE IF key = 0 THEN Rejected("key")
        ELSE Looked(CacheGet(cache[i], key))

\* Group.Close
groupClose(i) ==
    LET Closed(x) == [g |-> [grp[i] EXCEPT !.closed = TRUE], c |-> x.c,
                      hung |-> x.hung]
    IN  IF grp[i].closed THEN [g |-> grp[i], c |-> cache[i], hung |-> FALSE]
        ELSE Closed(CacheClose(cache[i]))

\* ---- history
NoLast ==
    [node |-> 0, op |-> "none", key |-> 0, val |-> 0, peer |-> FALSE, err |-> "",
     hung |-> FALSE, localHit |-> FALSE, getter |-> FALSE, dueWall |-> FALSE,
     dueClk |-> FALSE, afterSet |-> FALSE, setVal |-> 0, setPeer |-> FALSE]
Never == [wall |-> 0, clk |-> 0]

Stamp(i) == [wall |-> now, clk |-> StoreClock(cache[i].type)]
Stored(nodes, key) ==
    [i \in Peers |-> IF i \in nodes /\ key \in GKeys
                     THEN [gstored[i] EXCEPT ![key] = Stamp(i)]
                     ELSE gstored[i]]
\* The key was stored on i and the group's TTL has run out since, by the wall
\* clock and by the store's clock.
DueWall(i, key) ==
    /\ key \in GKeys
    /\ grp[i].expiration > 0 /\ gstored[i][key].wall # 0
    /\ now >= gstored[i][key].wall + grp[i].expiration
DueClk(i, key) ==
    /\ key \in GKeys
    /\ grp[i].expiration > 0 /\ gstored[i][key].wall # 0
    /\ StoreClock(cache[i].type) >= gstored[i][key].clk + grp[i].expiration
\* The operation handled last was a Set of the key on i that returned nil, and
\* the group's TTL has not run out since by the store's clock.
AfterSet(i, key) ==
    /\ glast.node = i /\ glast.op = "set" /\ glast.key = key
    /\ glast.err = "" /\ ~glast.hung
    /\ ~DueClk(i, key)

\* ---- the cluster's steps
\* The client operations of a run.
MaxGOps == 2
GOp == nops < MaxGOps /\ nops' = nops + 1

GOthers == UNCHANGED <<timeVars, lru2Vars, lruVars, ringVars, sfVars, closeVars, regVars, getVars, shVars>>

\* A client calls Set(ctx, key, value) on node i.
GSet(i, key, value) ==
    LET Handled(r) ==
            /\ cache' = [cache EXCEPT ![i] = r.c]
            /\ tasks' = tasks \cup r.tasks
            /\ gstored' = Stored(IF r.stored THEN {i} ELSE {}, key)
            /\ glast' = [NoLast EXCEPT !.node = i, !.op = "set", !.key = key,
                                       !.val = value, !.err = r.err,
                                       !.hung = r.hung]
    IN  /\ GOp
        /\ Handled(groupSet(i, key, value, FALSE, nops + 1))
        /\ UNCHANGED <<grp, owner, net, rpcs>>

\* A client calls Delete(ctx, key) on node i.
GDelete(i, key) ==
    LET Handled(r) ==
            /\ cache' = [cache EXCEPT ![i] = r.c]
            /\ tasks' = tasks \cup r.tasks
            /\ glast' = [NoLast EXCEPT !.node = i, !.op = "delete", !.key = key,
                                       !.err = r.err, !.hung = r.hung]
    IN  /\ GOp
        /\ Handled(groupDelete(i, key, FALSE, nops + 1))
        /\ UNCHANGED <<grp, owner, net, rpcs, gstored>>

\* A client calls Get(ctx, key) on node i.
GGet(i, key, gres, pres) ==
    LET Handled(r) ==
            /\ cache' = r.cs
            /\ grp' = [j \in Peers |->
                          IF j \in r.lerr
                          THEN [grp[j] EXCEPT !.loaderErrors = @ + 1]
                          ELSE grp[j]]
            /\ tasks' = tasks \cup r.spawn
            /\ gstored' = Stored(r.stored, key)
            /\ glast' = [NoLast EXCEPT !.node = i, !.op = "get", !.key = key,
                                       !.val = r.val, !.err = r.err,
                                       !.hung = r.hung, !.localHit = r.localHit,
                                       !.getter = r.getter,
                                       !.dueWall = DueWall(i, key),
                                       !.dueClk = DueClk(i, key),
                                       !.afterSet = AfterSet(i, key),
                                       !.setVal = glast.val,
                                       !.setPeer = glast.peer]
    IN  /\ GOp
        /\ Handled(groupGet(i, key, gres, pres))
        /\ UNCHANGED <<owner, net, rpcs>>

\* A client calls Close on node i's group.
GClose(i) ==
    LET Handled(r) ==
            /\ grp' = [grp EXCEPT ![i] = r.g]
            /\ cache' = [cache EXCEPT ![i] = r.c]
            /\ glast' = [NoLast EXCEPT !.node = i, !.op = "close", !.hung = r.hung]
    IN  /\ GOp
        /\ Handled(groupClose(i))
        /\ UNCHANGED <<owner, tasks, net, rpcs, gstored>>

\* Group.syncToPeers runs: the peer is picked and Peer.Set or Peer.Delete
\* sends the request.
GSync(t) ==
    LET pk == PickPeer(t.node, t.key)
    IN  /\ t.kind = "sync"
        /\ tasks' = tasks \ {t}
        /\ IF ~grp[t.node].peers \/ pk.isSelf
           THEN UNCHANGED <<net, rpcs>>
           ELSE /\ net' = net \cup {[to |-> pk.peer, op |-> t.op, key |-> t.key,
                                     val |-> t.val, w |-> t.w]}
                /\ rpcs' = [rpcs EXCEPT ![t.w] = rpcs[t.w] + 1]
        /\ UNCHANGED <<grp, cache, owner, glast, gstored, nops>>

\* The goroutine the LRU store's Get started deletes the expired key.  It
\* waits for the store's lock; a store torn down by Close is out of reach.
GAsyncDelete(t) ==
    /\ t.kind = "lrudel"
    /\ ~(cache[t.node].initialized /\ cache[t.node].store.mu)
    /\ tasks' = tasks \ {t}
    /\ cache' = IF cache[t.node].initialized
                THEN [cache EXCEPT ![t.node].store =
                                       lruDelete(cache[t.node].store, t.key).c]
                ELSE cache
    /\ UNCHANGED <<grp, owner, net, rpcs, glast, gstored, nops>>

\* The request reaches its node, whose server hands it to Group.Set or
\* Group.Delete with a context that carries from_peer.
Deliver(msg) ==
    LET Handled(r) ==
            /\ cache' = [cache EXCEPT ![msg.to] = r.c]
            /\ tasks' = tasks \cup r.tasks
            /\ gstored' = Stored(IF r.stored THEN {msg.to} ELSE {}, msg.key)
            /\ glast' = [NoLast EXCEPT !.node = msg.to, !.op = msg.op,
                                       !.key = msg.key, !.val = msg.val,
                                       !.peer = TRUE, !.err = r.err,
                                       !.hung = r.hung]
    IN  /\ net' = net \ {msg}
        /\ IF msg.op = "set"
           THEN Handled(groupSet(msg.to, msg.key, msg.val, TRUE, msg.w))
           ELSE Handled(groupDelete(msg.to, msg.key, TRUE, msg.w))
        /\ UNCHANGED <<grp, owner, rpcs, nops>>

\* The request is lost on the way.
Drop(msg) ==
    /\ net' = net \ {msg}
    /\ UNCHANGED <<grp, cache, owner, tasks, rpcs, glast, gstored, nops>>

\* One pass of the cleanup goroutine of node i's store.
GSweep(i) ==
    /\ cache[i].initialized
    /\ cache[i].type = "lru" => ~cache[i].store.mu
    /\ cache' = [cache EXCEPT ![i].store = StoreSweep(cache[i])]
    /\ cache' # cache
    /\ UNCHANGED <<grp, owner, tasks, net, rpcs, glast, gstored, nops>>

GTime ==
    TimeStep /\ UNCHANGED <<lru2Vars, lruVars, ringVars, sfVars, grpVars, closeVars, regVars, getVars, shVars>>

NextGroup ==
    \/ \E i \in Peers, key \in 0..NGKeys, value \in 0..NVals :
           GSet(i, key, value) /\ GOthers
    \/ \E i \in Peers, key \in 0..NGKeys : GDelete(i, key) /\ GOthers
    \/ \E i \in Peers, key \in 0..NGKeys, gres \in 0..NVals, pres \in BOOLEAN :
           GGet(i, key, gres, pres) /\ GOthers
    \/ \E i \in Peers : GClose(i) /\ GOthers
    \/ \E t \in tasks : GSync(t) /\ GOthers
    \/ \E t \in tasks : GAsyncDelete(t) /\ GOthers
    \/ \E msg \in net : Deliver(msg) /\ GOthers
    \/ \E msg \in net : Drop(msg) /\ GOthers
    \/ \E i \in Peers : GSweep(i) /\ GOthers
    \/ GTime

\* ------------------------------------------------------------------ close
\* One Group whose Get, Set, Delete and Close run in goroutines of their own,
\* one statement at a time.  The store's contents stay out of it: store is
\* "set" or "nil", and a lookup may hit or miss.
NClProcs == 2
ClProcs == 1..NClProcs

\* returned: some call of Close has returned.
NewClCache(init) ==
    [gclosed |-> FALSE, closed |-> FALSE, initialized |-> init,
     store |-> IF init THEN "set" ELSE "nil", returned |-> FALSE]

\* late: the operation began after a Close had returned.
IdleProc == [op |-> "none", pc |-> "idle", res |-> "", late |-> FALSE]

ClDone(q, res) == clProc' = [clProc EXCEPT ![q].pc = "idle", ![q].res = res]
ClGoto(q, pc) == clProc' = [clProc EXCEPT ![q].pc = pc]

\* A goroutine calls Get, Set, Delete or Close.
ClStart(q, op) ==
    /\ clProc[q].pc = "idle"
    /\ Op
    /\ clProc' = [clProc EXCEPT ![q] = [op |-> op, pc |-> "g.closed", res |-> "",
                                        late |-> clCache.returned]]
    /\ UNCHANGED clCache

\* Group.Get / Set / Delete: atomic.LoadInt32(&g.closed) == 1.
ClGroupCheck(q) ==
    /\ clProc[q].pc = "g.closed" /\ clProc[q].op # "close"
    /\ IF clCache.gclosed THEN ClDone(q, "GroupClosed")
       ELSE ClGoto(q, CASE clProc[q].op = "get" -> "get.closed"
                        [] clProc[q].op = "set" -> "add.closed"
                        [] OTHER -> "del.closed")
    /\ UNCHANGED <<clCache, nops>>

\* Cache.Get: the closed test, the initialized test, the lookup under RLock.
ClGetClosed(q) ==
    /\ clProc[q].pc = "get.closed"
    /\ ClGoto(q, IF clCache.closed THEN "load" ELSE "get.init")
    /\ UNCHANGED <<clCache, nops>>

ClGetInit(q) ==
    /\ clProc[q].pc = "get.init"
    /\ ClGoto(q, IF ~clCache.initialized THEN "load" ELSE "get.rlock")
    /\ UNCHANGED <<clCache, nops>>

ClGetStore(q, found) ==
    /\ clProc[q].pc = "get.rlock"
    /\ IF clCache.store = "nil" THEN ClDone(q, "panic")
       ELSE IF found THEN ClDone(q, "ok")
       ELSE ClGoto(q, "load")
    /\ UNCHANGED <<clCache, nops>>

\* Group.load: the getter answers, and on success the value goes to Cache.Add.
ClLoad(q, loaded) ==
    /\ clProc[q].pc = "load"
    /\ IF loaded THEN ClGoto(q, "add.closed") ELSE ClDone(q, "error")
    /\ UNCHANGED <<clCache, nops>>

\* Cache.Add: the closed test, ensureInitialized, c.store.Set.
ClAddClosed(q) ==
    /\ clProc[q].pc = "add.closed"
    /\ IF clCache.closed THEN ClDone(q, "ok") ELSE ClGoto(q, "add.ensure")
    /\ UNCHANGED <<clCache, nops>>

ClAddEnsure(q) ==
    /\ clProc[q].pc = "add.ensure"
    /\ ClGoto(q, IF clCache.initialized THEN "add.call" ELSE "add.init")
    /\ UNCHANGED <<clCache, nops>>

ClAddInit(q) ==
    /\ clProc[q].pc = "add.init"
    /\ clCache' = IF ~clCache.initialized
                  THEN [clCache EXCEPT !.store = "set", !.initialized = TRUE]
                  ELSE clCache
    /\ ClGoto(q, "add.call")
    /\ UNCHANGED nops

ClAddStore(q) ==
    /\ clProc[q].pc = "add.call"
    /\ ClDone(q, IF clCache.store = "nil" THEN "panic" ELSE "ok")
    /\ UNCHANGED <<clCache, nops>>

\* Cache.Delete: the closed test, the initialized test, the call under RLock.
ClDelClosed(q) ==
    /\ clProc[q].pc = "del.closed"
    /\ IF clCache.closed THEN ClDone(q, "ok") ELSE ClGoto(q, "del.init")
    /\ UNCHANGED <<clCache, nops>>

ClDelInit(q) ==
    /\ clProc[q].pc = "del.init"
    /\ IF ~clCache.initialized THEN ClDone(q, "ok") ELSE ClGoto(q, "del.rlock")
    /\ UNCHANGED <<clCache, nops>>

ClDelStore(q) ==
    /\ clProc[q].pc = "del.rlock"
    /\ ClDone(q, IF clCache.store = "nil" THEN "panic" ELSE "ok")
    /\ UNCHANGED <<clCache, nops>>

\* Group.Close: CompareAndSwap on g.closed.
ClCloseGroup(q) ==
    /\ clProc[q].pc = "g.closed" /\ clProc[q].op = "close"
    /\ IF clCache.gclosed
       THEN /\ ClDone(q, "ok")
            /\ clCache' = [clCache EXCEPT !.returned = TRUE]
       ELSE /\ ClGoto(q, "close.cas")
            /\ clCache' = [clCache EXCEPT !.gclosed = TRUE]
    /\ UNCHANGED nops

\* Cache.Close: CompareAndSwap on c.closed.
ClCloseCache(q) ==
    /\ clProc[q].pc = "close.cas"
    /\ IF clCache.closed
       THEN ClGoto(q, "close.reg") /\ UNCHANGED clCache
       ELSE ClGoto(q, "close.lock") /\ clCache' = [clCache EXCEPT !.closed = TRUE]
    /\ UNCHANGED nops

\* Cache.Close under c.mu.Lock: c.store = nil, initialized = 0.
ClCloseStore(q) ==
    /\ clProc[q].pc = "close.lock"
    /\ clCache' = [clCache EXCEPT !.store = "nil", !.initialized = FALSE]
    /\ ClGoto(q, "close.reg")
    /\ UNCHANGED nops

\* Group.Close: the group leaves the registry and Close returns.
ClCloseReturn(q) ==
    /\ clProc[q].pc = "close.reg"
    /\ clCache' = [clCache EXCEPT !.returned = TRUE]
    /\ ClDone(q, "ok")
    /\ UNCHANGED nops

ClOthers == UNCHANGED <<timeVars, lru2Vars, lruVars, ringVars, sfVars, grpVars, regVars, getVars, shVars>>

NextClose ==
    \/ \E q \in ClProcs, op \in {"get", "set", "delete", "close"} :
           ClStart(q, op) /\ ClOthers
    \/ \E q \in ClProcs : ClGroupCheck(q) /\ ClOthers
    \/ \E q \in ClProcs : ClGetClosed(q) /\ ClOthers
    \/ \E q \in ClProcs : ClGetInit(q) /\ ClOthers
    \/ \E q \in ClProcs, found \in BOOLEAN : ClGetStore(q, found) /\ ClOthers
    \/ \E q \in ClProcs, loaded \in BOOLEAN : ClLoad(q, loaded) /\ ClOthers
    \/ \E q \in ClProcs : ClAddClosed(q) /\ ClOthers
    \/ \E q \in ClProcs : ClAddEnsure(q) /\ ClOthers
    \/ \E q \in ClProcs : ClAddInit(q) /\ ClOthers
    \/ \E q \in ClProcs : ClAddStore(q) /\ ClOthers
    \/ \E q \in ClProcs : ClDelClosed(q) /\ ClOthers
    \/ \E q \in ClProcs : ClDelInit(q) /\ ClOthers
    \/ \E q \in ClProcs : ClDelStore(q) /\ ClOthers
    \/ \E q \in ClProcs : ClCloseGroup(q) /\ ClOthers
    \/ \E q \in ClProcs : ClCloseCache(q) /\ ClOthers
    \/ \E q \in ClProcs : ClCloseStore(q) /\ ClOthers
    \/ \E q \in ClProcs : ClCloseReturn(q) /\ ClOthers

\* ------------------------------------------------------------------ registry
\* The process-wide table of Groups (groups, under groupsMu).  Names are
\* numbered 1..NNames; a Group is known by its index in gobjs.  NewGroup,
\* GetGroup, Close, DestroyGroup and DestroyAllGroups hold groupsMu for their
\* work on the table, so each is one step.  groupsMu is a sync.RWMutex: a
\* goroutine that asks for it while holding it waits for itself, and every
\* later caller waits behind it.
NNames == 2
Names == 1..NNames
MaxGroups == 3

NoRegRet == [op |-> "none", name |-> 0, g |-> 0]

\* NewGroup: the Group is made and groups[name] = g replaces what was there.
RegNewGroup(name) ==
    /\ ~groupsMu
    /\ Len(gobjs) < MaxGroups
    /\ gobjs' = Append(gobjs, [name |-> name, closed |-> FALSE, cacheClosed |-> FALSE])
    /\ groups' = [groups EXCEPT ![name] = Len(gobjs) + 1]
    /\ reglast' = [op |-> "new", name |-> name, g |-> Len(gobjs) + 1]
    /\ UNCHANGED groupsMu

\* GetGroup
GetGroup(name) == groups[name]

RegGetGroup(name) ==
    /\ ~groupsMu
    /\ reglast' = [op |-> "get", name |-> name, g |-> GetGroup(name)]
    /\ UNCHANGED <<groups, gobjs, groupsMu>>

\* Group.Close: the CompareAndSwap of g.closed, mainCache.Close and
\* delete(groups, g.name).
closeGroup(reg, objs, g) ==
    IF objs[g].closed THEN [reg |-> reg, objs |-> objs]
    ELSE [reg |-> [reg EXCEPT ![objs[g].name] = 0],
          objs |-> [objs EXCEPT ![g].closed = TRUE, ![g].cacheClosed = TRUE]]

\* Group.Close up to its groupsMu.Lock(): g.closed is swapped and the cache
\* closed, the table is as it was.
closeBlocked(objs, g) ==
    [objs EXCEPT ![g].closed = TRUE, ![g].cacheClosed = TRUE]

\* A Close of an open Group made while groupsMu is held stops at its Lock and
\* does not return; a Close of a closed Group returns without asking for it.
RegClose(g) ==
    LET r == closeGroup(groups, gobjs, g)
    IN  IF groupsMu /\ ~gobjs[g].closed
        THEN /\ gobjs' = closeBlocked(gobjs, g)
             /\ UNCHANGED <<groups, reglast, groupsMu>>
        ELSE /\ groups' = r.reg
             /\ gobjs' = r.objs
             /\ reglast' = [op |-> "close", name |-> gobjs[g].name, g |-> g]
             /\ UNCHANGED groupsMu

\* DestroyGroup: under groupsMu, g.Close() and delete(groups, name) for the
\* Group registered under name.  The Close of an open Group asks for groupsMu,
\* which its own caller holds: the call stops there, the lock stays held.
RegDestroyGroup(name) ==
    LET g == groups[name]
    IN  /\ ~groupsMu
        /\ IF g = 0
           THEN /\ reglast' = [op |-> "destroy", name |-> name, g |-> 0]
                /\ UNCHANGED <<groups, gobjs, groupsMu>>
           ELSE IF gobjs[g].closed
           THEN /\ groups' = [groups EXCEPT ![name] = 0]
                /\ reglast' = [op |-> "destroy", name |-> name, g |-> g]
                /\ UNCHANGED <<gobjs, groupsMu>>
           ELSE /\ gobjs' = closeBlocked(gobjs, g)
                /\ groupsMu' = TRUE
                /\ UNCHANGED <<groups, reglast>>

\* DestroyAllGroups: under groupsMu, g.Close() and delete(groups, name) for
\* every name in the order the map's range gives them (any order).  The loop
\* stops for good in the Close of the first open Group it meets; the closed
\* ones it met before that are deleted.
RegDestroyAllGroups ==
    LET registered == {nm \in Names : groups[nm] # 0}
        open == {nm \in registered : ~gobjs[groups[nm]].closed}
    IN  /\ ~groupsMu
        /\ IF open = {}
           THEN /\ groups' = [nm \in Names |-> 0]
                /\ reglast' = [op |-> "destroyall", name |-> 0, g |-> 0]
                /\ UNCHANGED <<gobjs, groupsMu>>
           ELSE \E first \in open, done \in SUBSET (registered \ open) :
                /\ groups' = [nm \in Names |-> IF nm \in done THEN 0 ELSE groups[nm]]
                /\ gobjs' = closeBlocked(gobjs, groups[first])
                /\ groupsMu' = TRUE
                /\ UNCHANGED reglast

RegOthers ==
    UNCHANGED <<timeVars, lru2Vars, lruVars, ringVars, sfVars, grpVars, closeVars, nops, getVars, shVars>>

NextRegistry ==
    \/ \E name \in Names : RegNewGroup(name) /\ RegOthers
    \/ \E name \in Names : RegGetGroup(name) /\ RegOthers
    \/ \E g \in 1..Len(gobjs) : RegClose(g) /\ RegOthers
    \/ \E name \in Names : RegDestroyGroup(name) /\ RegOthers
    \/ RegDestroyAllGroups /\ RegOthers

\* ------------------------------------------------------------------ specifications
InitLRU2 ==
    /\ now = 1 /\ clock = 1 /\ clkI \in ClockPhases /\ clkWake = 1 /\ nops = 0
    /\ lru2 = newLRU2Cache /\ l2ret = NoRet /\ l2set = [k \in Keys |-> 0]
    /\ lru = newLRUCache(0) /\ lruDel = {} /\ lret = NoRet /\ lruUse = <<>>
    /\ ring = New(MinReplicas) /\ rret = NoRingRet
    /\ ringReAdd = FALSE /\ ringCollide = FALSE
    /\ sfm = [k \in Keys |-> 0] /\ sfCalls = <<>> /\ sfLog = <<>>
    /\ sfpc = [c \in Callers |-> "idle"] /\ sfkey = [c \in Callers |-> 0]
    /\ sfc = [c \in Callers |-> 0] /\ sfInst = [c \in Callers |-> 0]
    /\ grp = [i \in Peers |-> NewGroup(0)]
    /\ cache = [i \in Peers |-> NewCache("lru2")]
    /\ owner = [i \in Peers |-> [k \in GKeys |-> i]]
    /\ tasks = {} /\ net = {} /\ rpcs = [w \in 1..MaxGOps |-> 0]
    /\ glast = NoLast
    /\ gstored = [i \in Peers |-> [k \in GKeys |-> Never]]
    /\ clCache = NewClCache(TRUE) /\ clProc = [q \in ClProcs |-> IdleProc]
    /\ groups = [nm \in Names |-> 0] /\ gobjs = <<>> /\ reglast = NoRegRet /\ groupsMu = FALSE
    /\ rgProc = [q \in Getters |-> IdleGet] /\ rgRet = 0 /\ rgCrash = FALSE
    /\ shStore = NoStore /\ shRet = NoIndex

SpecLRU2 == InitLRU2 /\ [][NextLRU2]_vars

InitLRU ==
    /\ now = 1 /\ clock = 1 /\ clkI \in ClockPhases /\ clkWake = 1 /\ nops = 0
    /\ lru2 = newLRU2Cache /\ l2ret = NoRet /\ l2set = [k \in Keys |-> 0]
    /\ lru \in {newLRUCache(0), newLRUCache(MaxBytes)} /\ lruDel = {} /\ lret = NoRet /\ lruUse = <<>>
    /\ ring = New(MinReplicas) /\ rret = NoRingRet
    /\ ringReAdd = FALSE /\ ringCollide = FALSE
    /\ sfm = [k \in Keys |-> 0] /\ sfCalls = <<>> /\ sfLog = <<>>
    /\ sfpc = [c \in Callers |-> "idle"] /\ sfkey = [c \in Callers |-> 0]
    /\ sfc = [c \in Callers |-> 0] /\ sfInst = [c \in Callers |-> 0]
    /\ grp = [i \in Peers |-> NewGroup(0)]
    /\ cache = [i \in Peers |-> NewCache("lru2")]
    /\ owner = [i \in Peers |-> [k \in GKeys |-> i]]
    /\ tasks = {} /\ net = {} /\ rpcs = [w \in 1..MaxGOps |-> 0]
    /\ glast = NoLast
    /\ gstored = [i \in Peers |-> [k \in GKeys |-> Never]]
    /\ clCache = NewClCache(TRUE) /\ clProc = [q \in ClProcs |-> IdleProc]
    /\ groups = [nm \in Names |-> 0] /\ gobjs = <<>> /\ reglast = NoRegRet /\ groupsMu = FALSE
    /\ rgProc = [q \in Getters |-> IdleGet] /\ rgRet = 0 /\ rgCrash = FALSE
    /\ shStore = NoStore /\ shRet = NoIndex

SpecLRU == InitLRU /\ [][NextLRU]_vars

InitRing ==
    /\ now = 1 /\ clock = 1 /\ clkI = 0 /\ clkWake = 1 /\ nops = 0
    /\ lru2 = newLRU2Cache /\ l2ret = NoRet /\ l2set = [k \in Keys |-> 0]
    /\ lru = newLRUCache(0) /\ lruDel = {} /\ lret = NoRet /\ lruUse = <<>>
    /\ ring \in {New(MinReplicas), New(DefaultReplicas)} /\ rret = NoRingRet
    /\ ringReAdd = FALSE /\ ringCollide = FALSE
    /\ sfm = [k \in Keys |-> 0] /\ sfCalls = <<>> /\ sfLog = <<>>
    /\ sfpc = [c \in Callers |-> "idle"] /\ sfkey = [c \in Callers |-> 0]
    /\ sfc = [c \in Callers |-> 0] /\ sfInst = [c \in Callers |-> 0]
    /\ grp = [i \in Peers |-> NewGroup(0)]
    /\ cache = [i \in Peers |-> NewCache("lru2")]
    /\ owner = [i \in Peers |-> [k \in GKeys |-> i]]
    /\ tasks = {} /\ net = {} /\ rpcs = [w \in 1..MaxGOps |-> 0]
    /\ glast = NoLast
    /\ gstored = [i \in Peers |-> [k \in GKeys |-> Never]]
    /\ clCache = NewClCache(TRUE) /\ clProc = [q \in ClProcs |-> IdleProc]
    /\ groups = [nm \in Names |-> 0] /\ gobjs = <<>> /\ reglast = NoRegRet /\ groupsMu = FALSE
    /\ rgProc = [q \in Getters |-> IdleGet] /\ rgRet = 0 /\ rgCrash = FALSE
    /\ shStore = NoStore /\ shRet = NoIndex

SpecRing == InitRing /\ [][NextRing]_vars

\* Concurrent Gets on a ring that Add has filled (or left empty).
InitRingGet ==
    /\ now = 1 /\ clock = 1 /\ clkI = 0 /\ clkWake = 1 /\ nops = 0
    /\ lru2 = newLRU2Cache /\ l2ret = NoRet /\ l2set = [k \in Keys |-> 0]
    /\ lru = newLRUCache(0) /\ lruDel = {} /\ lret = NoRet /\ lruUse = <<>>
    /\ ring \in {New(MinReplicas), MapAdd(New(MinReplicas), <<1>>).m,
                MapAdd(New(MinReplicas), <<1, 2>>).m}
    /\ rret = NoRingRet
    /\ ringReAdd = FALSE /\ ringCollide = FALSE
    /\ sfm = [k \in Keys |-> 0] /\ sfCalls = <<>> /\ sfLog = <<>>
    /\ sfpc = [c \in Callers |-> "idle"] /\ sfkey = [c \in Callers |-> 0]
    /\ sfc = [c \in Callers |-> 0] /\ sfInst = [c \in Callers |-> 0]
    /\ grp = [i \in Peers |-> NewGroup(0)]
    /\ cache = [i \in Peers |-> NewCache("lru2")]
    /\ owner = [i \in Peers |-> [k \in GKeys |-> i]]
    /\ tasks = {} /\ net = {} /\ rpcs = [w \in 1..MaxGOps |-> 0]
    /\ glast = NoLast
    /\ gstored = [i \in Peers |-> [k \in GKeys |-> Never]]
    /\ clCache = NewClCache(TRUE) /\ clProc = [q \in ClProcs |-> IdleProc]
    /\ groups = [nm \in Names |-> 0] /\ gobjs = <<>> /\ reglast = NoRegRet /\ groupsMu = FALSE
    /\ rgProc = [q \in Getters |-> IdleGet] /\ rgRet = 0 /\ rgCrash = FALSE
    /\ shStore = NoStore /\ shRet = NoIndex

SpecRingGet == InitRingGet /\ [][NextRingGet]_vars

\* A store that is about to be made.
InitShard ==
    /\ now = 1 /\ clock = 1 /\ clkI = 0 /\ clkWake = 1 /\ nops = 0
    /\ lru2 = newLRU2Cache /\ l2ret = NoRet /\ l2set = [k \in Keys |-> 0]
    /\ lru = newLRUCache(0) /\ lruDel = {} /\ lret = NoRet /\ lruUse = <<>>
    /\ ring = New(MinReplicas) /\ rret = NoRingRet
    /\ ringReAdd = FALSE /\ ringCollide = FALSE
    /\ sfm = [k \in Keys |-> 0] /\ sfCalls = <<>> /\ sfLog = <<>>
    /\ sfpc = [c \in Callers |-> "idle"] /\ sfkey = [c \in Callers |-> 0]
    /\ sfc = [c \in Callers |-> 0] /\ sfInst = [c \in Callers |-> 0]
    /\ grp = [i \in Peers |-> NewGroup(0)]
    /\ cache = [i \in Peers |-> NewCache("lru2")]
    /\ owner = [i \in Peers |-> [k \in GKeys |-> i]]
    /\ tasks = {} /\ net = {} /\ rpcs = [w \in 1..MaxGOps |-> 0]
    /\ glast = NoLast
    /\ gstored = [i \in Peers |-> [k \in GKeys |-> Never]]
    /\ clCache = NewClCache(TRUE) /\ clProc = [q \in ClProcs |-> IdleProc]
    /\ groups = [nm \in Names |-> 0] /\ gobjs = <<>> /\ reglast = NoRegRet /\ groupsMu = FALSE
    /\ rgProc = [q \in Getters |-> IdleGet] /\ rgRet = 0 /\ rgCrash = FALSE
    /\ shStore = NoStore /\ shRet = NoIndex

SpecShard == InitShard /\ [][NextShard]_vars

\* An empty level.
InitLevel ==
    /\ now = 1 /\ clock = 1 /\ clkI = 0 /\ clkWake = 1 /\ nops = 0
    /\ lru2 = newLRU2Cache /\ l2ret = NoRet /\ l2set = [k \in Keys |-> 0]
    /\ lru = newLRUCache(0) /\ lruDel = {} /\ lret = NoRet /\ lruUse = <<>>
    /\ ring = New(MinReplicas) /\ rret = NoRingRet
    /\ ringReAdd = FALSE /\ ringCollide = FALSE
    /\ sfm = [k \in Keys |-> 0] /\ sfCalls = <<>> /\ sfLog = <<>>
    /\ sfpc = [c \in Callers |-> "idle"] /\ sfkey = [c \in Callers |-> 0]
    /\ sfc = [c \in Callers |-> 0] /\ sfInst = [c \in Callers |-> 0]
    /\ grp = [i \in Peers |-> NewGroup(0)]
    /\ cache = [i \in Peers |-> NewCache("lru2")]
    /\ owner = [i \in Peers |-> [k \in GKeys |-> i]]
    /\ tasks = {} /\ net = {} /\ rpcs = [w \in 1..MaxGOps |-> 0]
    /\ glast = NoLast
    /\ gstored = [i \in Peers |-> [k \in GKeys |-> Never]]
    /\ clCache = NewClCache(TRUE) /\ clProc = [q \in ClProcs |-> IdleProc]
    /\ groups = [nm \in Names |-> 0] /\ gobjs = <<>> /\ reglast = NoRegRet /\ groupsMu = FALSE
    /\ rgProc = [q \in Getters |-> IdleGet] /\ rgRet = 0 /\ rgCrash = FALSE
    /\ shStore = NoStore /\ shRet = NoIndex

SpecLevel == InitLevel /\ [][NextLevel]_vars

\* An empty shard.
InitSeq ==
    /\ now = 1 /\ clock = 1 /\ clkI = 0 /\ clkWake = 1 /\ nops = 0
    /\ lru2 = newLRU2Cache /\ l2ret = NoRet /\ l2set = [k \in Keys |-> 0]
    /\ lru = newLRUCache(0) /\ lruDel = {} /\ lret = NoRet /\ lruUse = <<>>
    /\ ring = New(MinReplicas) /\ rret = NoRingRet
    /\ ringReAdd = FALSE /\ ringCollide = FALSE
    /\ sfm = [k \in Keys |-> 0] /\ sfCalls = <<>> /\ sfLog = <<>>
    /\ sfpc = [c \in Callers |-> "idle"] /\ sfkey = [c \in Callers |-> 0]
    /\ sfc = [c \in Callers |-> 0] /\ sfInst = [c \in Callers |-> 0]
    /\ grp = [i \in Peers |-> NewGroup(0)]
    /\ cache = [i \in Peers |-> NewCache("lru2")]
    /\ owner = [i \in Peers |-> [k \in GKeys |-> i]]
    /\ tasks = {} /\ net = {} /\ rpcs = [w \in 1..MaxGOps |-> 0]
    /\ glast = NoLast
    /\ gstored = [i \in Peers |-> [k \in GKeys |-> Never]]
    /\ clCache = NewClCache(TRUE) /\ clProc = [q \in ClProcs |-> IdleProc]
    /\ groups = [nm \in Names |-> 0] /\ gobjs = <<>> /\ reglast = NoRegRet /\ groupsMu = FALSE
    /\ rgProc = [q \in Getters |-> IdleGet] /\ rgRet = 0 /\ rgCrash = FALSE
    /\ shStore = NoStore /\ shRet = NoIndex

SpecSeq == InitSeq /\ [][NextSeq]_vars

InitSF ==
    /\ now = 1 /\ clock = 1 /\ clkI = 0 /\ clkWake = 1 /\ nops = 0
    /\ lru2 = newLRU2Cache /\ l2ret = NoRet /\ l2set = [k \in Keys |-> 0]
    /\ lru = newLRUCache(0) /\ lruDel = {} /\ lret = NoRet /\ lruUse = <<>>
    /\ ring = New(MinReplicas) /\ rret = NoRingRet
    /\ ringReAdd = FALSE /\ ringCollide = FALSE
    /\ sfm = [k \in Keys |-> 0] /\ sfCalls = <<>> /\ sfLog = <<>>
    /\ sfpc = [c \in Callers |-> "idle"] /\ sfkey = [c \in Callers |-> 0]
    /\ sfc = [c \in Callers |-> 0] /\ sfInst = [c \in Callers |-> 0]
    /\ grp = [i \in Peers |-> NewGroup(0)]
    /\ cache = [i \in Peers |-> NewCache("lru2")]
    /\ owner = [i \in Peers |-> [k \in GKeys |-> i]]
    /\ tasks = {} /\ net = {} /\ rpcs = [w \in 1..MaxGOps |-> 0]
    /\ glast = NoLast
    /\ gstored = [i \in Peers |-> [k \in GKeys |-> Never]]
    /\ clCache = NewClCache(TRUE) /\ clProc = [q \in ClProcs |-> IdleProc]
    /\ groups = [nm \in Names |-> 0] /\ gobjs = <<>> /\ reglast = NoRegRet /\ groupsMu = FALSE
    /\ rgProc = [q \in Getters |-> IdleGet] /\ rgRet = 0 /\ rgCrash = FALSE
    /\ shStore = NoStore /\ shRet = NoIndex

SpecSF == InitSF /\ [][NextSF]_vars

\* A two-node cluster: both groups have the same TTL (0: none) and the same
\* store type; each node's picker has its own idea of who owns a key.
InitGroup ==
    /\ now = 1 /\ clock = 1 /\ clkI \in ClockPhases /\ clkWake = 1 /\ nops = 0
    /\ lru2 = newLRU2Cache /\ l2ret = NoRet /\ l2set = [k \in Keys |-> 0]
    /\ lru = newLRUCache(0) /\ lruDel = {} /\ lret = NoRet /\ lruUse = <<>>
    /\ ring = New(MinReplicas) /\ rret = NoRingRet
    /\ ringReAdd = FALSE /\ ringCollide = FALSE
    /\ sfm = [k \in Keys |-> 0] /\ sfCalls = <<>> /\ sfLog = <<>>
    /\ sfpc = [c \in Callers |-> "idle"] /\ sfkey = [c \in Callers |-> 0]
    /\ sfc = [c \in Callers |-> 0] /\ sfInst = [c \in Callers |-> 0]
    /\ grp \in {[i \in Peers |-> NewGroup(d)] : d \in {0, TTL}}
    /\ cache \in {[i \in Peers |-> NewCache(t)] : t \in {"lru", "lru2"}}
    /\ owner \in [Peers -> [GKeys -> Peers]]
    /\ tasks = {} /\ net = {} /\ rpcs = [w \in 1..MaxGOps |-> 0]
    /\ glast = NoLast
    /\ gstored = [i \in Peers |-> [k \in GKeys |-> Never]]
    /\ clCache = NewClCache(TRUE) /\ clProc = [q \in ClProcs |-> IdleProc]
    /\ groups = [nm \in Names |-> 0] /\ gobjs = <<>> /\ reglast = NoRegRet /\ groupsMu = FALSE
    /\ rgProc = [q \in Getters |-> IdleGet] /\ rgRet = 0 /\ rgCrash = FALSE
    /\ shStore = NoStore /\ shRet = NoIndex

SpecGroup == InitGroup /\ [][NextGroup]_vars

\* A Group that is in use (its store exists) or has not been used yet.
InitClose ==
    /\ now = 1 /\ clock = 1 /\ clkI = 0 /\ clkWake = 1 /\ nops = 0
    /\ lru2 = newLRU2Cache /\ l2ret = NoRet /\ l2set = [k \in Keys |-> 0]
    /\ lru = newLRUCache(0) /\ lruDel = {} /\ lret = NoRet /\ lruUse = <<>>
    /\ ring = New(MinReplicas) /\ rret = NoRingRet
    /\ ringReAdd = FALSE /\ ringCollide = FALSE
    /\ sfm = [k \in Keys |-> 0] /\ sfCalls = <<>> /\ sfLog = <<>>
    /\ sfpc = [c \in Callers |-> "idle"] /\ sfkey = [c \in Callers |-> 0]
    /\ sfc = [c \in Callers |-> 0] /\ sfInst = [c \in Callers |-> 0]
    /\ grp = [i \in Peers |-> NewGroup(0)]
    /\ cache = [i \in Peers |-> NewCache("lru2")]
    /\ owner = [i \in Peers |-> [k \in GKeys |-> i]]
    /\ tasks = {} /\ net = {} /\ rpcs = [w \in 1..MaxGOps |-> 0]
    /\ glast = NoLast
    /\ gstored = [i \in Peers |-> [k \in GKeys |-> Never]]
    /\ clCache \in {NewClCache(FALSE), NewClCache(TRUE)}
    /\ clProc = [q \in ClProcs |-> IdleProc]
    /\ groups = [nm \in Names |-> 0] /\ gobjs = <<>> /\ reglast = NoRegRet /\ groupsMu = FALSE
    /\ rgProc = [q \in Getters |-> IdleGet] /\ rgRet = 0 /\ rgCrash = FALSE
    /\ shStore = NoStore /\ shRet = NoIndex

SpecClose == InitClose /\ [][NextClose]_vars

InitRegistry ==
    /\ now = 1 /\ clock = 1 /\ clkI = 0 /\ clkWake = 1 /\ nops = 0
    /\ lru2 = newLRU2Cache /\ l2ret = NoRet /\ l2set = [k \in Keys |-> 0]
    /\ lru = newLRUCache(0) /\ lruDel = {} /\ lret = NoRet /\ lruUse = <<>>
    /\ ring = New(MinReplicas) /\ rret = NoRingRet
    /\ ringReAdd = FALSE /\ ringCollide = FALSE
    /\ sfm = [k \in Keys |-> 0] /\ sfCalls = <<>> /\ sfLog = <<>>
    /\ sfpc = [c \in Callers |-> "idle"] /\ sfkey = [c \in Callers |-> 0]
    /\ sfc = [c \in Callers |-> 0] /\ sfInst = [c \in Callers |-> 0]
    /\ grp = [i \in Peers |-> NewGroup(0)]
    /\ cache = [i \in Peers |-> NewCache("lru2")]
    /\ owner = [i \in Peers |-> [k \in GKeys |-> i]]
    /\ tasks = {} /\ net = {} /\ rpcs = [w \in 1..MaxGOps |-> 0]
    /\ glast = NoLast
    /\ gstored = [i \in Peers |-> [k \in GKeys |-> Never]]
    /\ clCache = NewClCache(TRUE)
    /\ clProc = [q \in ClProcs |-> IdleProc]
    /\ groups = [nm \in Names |-> 0] /\ gobjs = <<>> /\ reglast = NoRegRet /\ groupsMu = FALSE
    /\ rgProc = [q \in Getters |-> IdleGet] /\ rgRet = 0 /\ rgCrash = FALSE
    /\ shStore = NoStore /\ shRet = NoIndex

SpecRegistry == InitRegistry /\ [][NextRegistry]_vars

\* ------------------------------------------------------------------ claims
\* Live(c, key): the level holds a live (not tombstoned) entry for key.
Live(c, key) == c.hmap[key] # 0 /\ c.m[c.hmap[key]].expireAt > 0

\* C4: in an LRU-2 shard every live key is in at most one of the two levels,
\* so Len counts each live key once.
C4_OneLevel ==
    /\ \A key \in Keys : ~(Live(lru2[1], key) /\ Live(lru2[2], key))
    /\ StoreLen(lru2) = Cardinality({key \in Keys : Live(lru2[1], key) \/ Live(lru2[2], key)})

\* C5: with maxBytes > 0, usedBytes <= maxBytes after every Set or
\* SetWithExpiration, for a new key and for a replaced value alike.
C5_BytesBounded ==
    (lru.maxBytes > 0 /\ lret.op = "set") => lru.usedBytes <= lru.maxBytes

\* The ring's three invariants: |keys| is the sum of nodeReplicas, keys is
\* sorted ascending, and hashMap's hashes are exactly those of keys.
RECURSIVE SumReplicas(_, _)
SumReplicas(m, nodes) ==
    IF nodes = {} THEN 0
    ELSE LET nd == CHOOSE x \in nodes : TRUE
         IN  m.nodeReplicas[nd] + SumReplicas(m, nodes \ {nd})

RingWF(m) ==
    /\ Len(m.keys) = SumReplicas(m, Nodes)
    /\ \A i \in 1..(Len(m.keys) - 1) : m.keys[i] <= m.keys[i + 1]
    /\ {h \in Hashes : m.hashMap[h] # 0} = {m.keys[i] : i \in 1..Len(m.keys)}

\* C6 as stated: the three invariants hold after every Add, Remove and rebalance.
C6_Original == RingWF(ring)

\* C6 as amended: they hold as long as Add was never given a node that was
\* already in the ring and no two virtual nodes in the ring shared a hash.
C6_RingInvariant == (~ringReAdd /\ ~ringCollide) => RingWF(ring)

\* A node was removed from a ring that still holds another node, after a
\* rebalance pass ran to its end (it reset a counter to 0), with no re-Add and
\* no collision before.
C6_Witness ==
    /\ ~ringReAdd /\ ~ringCollide
    /\ rret.op = "remove" /\ ~rret.err
    /\ Len(ring.keys) > 0
    /\ \E nd \in Nodes : ring.nodeCounts[nd] = 0

\* C1: no two invocations of fn for the same key are in progress at the same
\* moment.
C1_OneInvocation ==
    \A k \in SFKeys : Cardinality({c \in Callers : sfpc[c] = "infn" /\ sfkey[c] = k}) <= 1

\* C7: a Do call returns the same (value, error) pair as every Do call for its
\* key that was in flight, its result not yet produced, when it began.
C7_SameResult ==
    \A a \in 1..Len(sfLog) : \A b \in sfLog[a].must :
        (sfLog[a].ret /\ sfLog[b].ret)
            => (sfLog[a].val = sfLog[b].val /\ sfLog[a].err = sfLog[b].err)

\* C2: no client write leads to more than one call of Peer.Set or Peer.Delete:
\* a Set or Delete that arrives with from_peer is never passed on.
C2_LoopFree == \A w \in DOMAIN rpcs : rpcs[w] <= 1

\* A Set that arrived with from_peer was handled by a node whose picker names
\* another node for the key, and nothing is left to run or to deliver.
C2_Witness ==
    /\ glast.op = "set" /\ glast.peer /\ glast.err = "" /\ ~glast.hung
    /\ ~PickPeer(glast.node, glast.key).isSelf
    /\ tasks = {} /\ net = {}
    /\ \E w \in DOMAIN rpcs : rpcs[w] = 1

\* C3: a Get that directly follows a successful Set of the same key on the same
\* node, the TTL not yet run out, returns the value that was Set as a local hit
\* and does not invoke the getter.
C3_SetThenGet ==
    (glast.op = "get" /\ glast.afterSet)
        => (glast.localHit /\ glast.val = glast.setVal /\ ~glast.getter)

\* C8: after a Set that a peer propagated to the node has been handled there, a
\* Get of the key on that node returns the propagated value as a local hit and
\* does not invoke the getter.
C8_PeerHolds ==
    (glast.op = "get" /\ glast.afterSet /\ glast.setPeer)
        => (~glast.hung /\ glast.err = "" /\ glast.localHit /\ ~glast.getter
            /\ glast.val = glast.setVal)

\* C9 as stated: a Get at a wall-clock time of at least the time the key was
\* last stored plus the group's TTL is not a local hit.
C9_Original == (glast.op = "get" /\ glast.dueWall) => ~glast.localHit

\* C9: a Get issued when the store's clock reads at least its reading when the
\* key was last stored plus the group's TTL is not a local hit.
C9_ExpiredMiss == (glast.op = "get" /\ glast.dueClk) => ~glast.localHit

\* An LRU-2 group with a TTL answered a Get of a key whose TTL had run out by
\* the store's clock: the lookup missed and the getter loaded the value.
C9_Witness ==
    /\ glast.op = "get" /\ glast.dueClk /\ glast.node # 0
    /\ cache[glast.node].type = "lru2"
    /\ ~glast.localHit /\ glast.getter /\ glast.err = "" /\ ~glast.hung

\* C10: no operation calls into a store that Close has set to nil, and an
\* operation that began after Close returned ends with GroupClosed.
C10_CloseSafe ==
    \A q \in ClProcs :
        /\ clProc[q].res # "panic"
        /\ (clProc[q].late /\ clProc[q].pc = "idle"
                /\ clProc[q].op \in {"get", "set", "delete"})
            => clProc[q].res = "GroupClosed"

\* The bytes of the entries of items: len(key) + value.Len() of each.
RECURSIVE SumBytes(_, _)
SumBytes(c, keys) ==
    IF keys = {} THEN 0
    ELSE LET key == CHOOSE k \in keys : TRUE
         IN  KeyLen(key) + ValLen(c.value[key]) + SumBytes(c, keys \ {key})

\* C11: in the LRU store usedBytes is the sum of len(key) + value.Len() over
\* exactly the entries in the store (items and the list hold the same keys,
\* each once), after any sequence of operations and sweeps; it is never
\* negative.
C11_UsedBytesExact ==
    /\ lru.usedBytes = SumBytes(lru, {k \in Keys : InItems(lru, k)})
    /\ lru.usedBytes >= 0
    /\ {lru.list[i] : i \in 1..Len(lru.list)} = {k \in Keys : InItems(lru, k)}
    /\ Len(lru.list) = Cardinality({k \in Keys : InItems(lru, k)})

\* A sweep has just removed an expired entry and left another in the store.
C11_Witness ==
    /\ lret.op = "sweep" /\ lret.ev # <<>>
    /\ lru.usedBytes > 0 /\ Len(lru.list) > 0

\* The entry of key is in the store and its time has not come at t.
Fresh(c, key, t) == InItems(c, key) /\ (c.expires[key] = 0 \/ t < c.expires[key])

\* C12: Get of a key that is present and not expired returns (stored value,
\* true) and makes the key the most recently used; Get of an absent key
\* returns a miss and changes nothing.
C12_GetHit ==
    [][\A key \in Keys : LRUGet(key) =>
          /\ Fresh(lru, key, now) =>
                /\ lret'.ok
                /\ lret'.v = lru.value[key]
                /\ lru'.list[Len(lru'.list)] = key
          /\ ~InItems(lru, key) => (~lret'.ok /\ lru' = lru)]_vars

\* The place of a key in a recency order (0: not in it).
Pos(use, key) ==
    IF \E i \in 1..Len(use) : use[i] = key
    THEN CHOOSE i \in 1..Len(use) : use[i] = key
    ELSE 0

\* The entries a Set evicted for capacity: those of ev that were not past
\* their time in the store c the Set found.
CapEvicted(c, ev, t) ==
    {i \in 1..Len(ev) : ~(c.expires[ev[i].k] # 0 /\ After(t, c.expires[ev[i].k]))}

\* C13: a Set that evicts for capacity removes entries in least recently used
\* order, recency being the last Set or Get of each key: no entry is evicted
\* while a less recently used one stays, the last eviction was needed to get
\* usedBytes down to maxBytes, and with maxBytes = 0 nothing is evicted for
\* capacity.
C13_LRUOrder ==
    [][(nops' = nops + 1 /\ lret'.op = "set" /\ lret'.v # 0) =>
          LET ev == lret'.ev
              cap == CapEvicted(lru, ev, now)
              use == Append(SelectSeq(lruUse, LAMBDA k : k # lret'.key), lret'.key)
          IN  /\ lru.maxBytes = 0 => cap = {}
              /\ \A i \in cap : \A k \in Keys :
                    InItems(lru', k) => Pos(use, k) > Pos(use, ev[i].k)
              /\ \A i \in cap : \A j \in cap :
                    i < j => Pos(use, ev[i].k) < Pos(use, ev[j].k)
              /\ cap # {} =>
                    lru'.usedBytes + KeyLen(ev[Len(ev)].k) + ValLen(ev[Len(ev)].v)
                        > lru.maxBytes]_vars

\* A Set has just evicted for capacity (no time has passed, so nothing was
\* expired) and two entries stay.
C13_Witness ==
    /\ lret.op = "set" /\ lret.ev # <<>> /\ now = 1
    /\ lru.maxBytes > 0 /\ Len(lru.list) >= 2

\* The entry of key is in the store and its time has come at t (t = expireAt
\* included).
Due(c, key, t) == InItems(c, key) /\ c.expires[key] # 0 /\ t >= c.expires[key]

\* C14: an entry stamped with expireAt is not returned by a Get at any time
\* now >= expireAt, and every eviction pass (of an inserting Set or of the
\* sweeper) run at such a time removes it.
C14_ExpiredGone ==
    [][/\ \A key \in Keys :
             (LRUGet(key) /\ Due(lru, key, now)) => (lret'.v = 0 /\ ~lret'.ok)
       /\ (nops' = nops + 1
           /\ \/ lret'.op = "sweep"
              \/ lret'.op = "set" /\ lret'.v # 0 /\ ~InItems(lru, lret'.key))
          => \A key \in Keys : Due(lru, key, now) => ~InItems(lru', key)]_vars

Members(m) == {nd \in Nodes : m.nodeReplicas[nd] # 0}

\* C16 as stated: Remove(C) leaves the owner of every key that C did not own
\* as it was, and gives every key that C owned to one of the remaining nodes.
C16_Original ==
    [][\A node \in Nodes : (RingRemove(node) /\ ~rret'.err) =>
          \A key \in Keys :
              IF Owner(ring, key) # node
              THEN Owner(ring', key) = Owner(ring, key)
              ELSE Owner(ring', key) \in Members(ring')]_vars

\* C16 as amended: the same, for a ring that Add was never given a present
\* node for and in which no two virtual nodes shared a hash; when C was the
\* only node, Get returns "" afterwards.
C16_RemoveLocal ==
    [][\A node \in Nodes :
          (RingRemove(node) /\ ~rret'.err /\ ~ringReAdd /\ ~ringCollide) =>
              \A key \in Keys :
                  IF Owner(ring, key) # node
                  THEN Owner(ring', key) = Owner(ring, key)
                  ELSE IF Members(ring') = {} THEN Owner(ring', key) = 0
                  ELSE Owner(ring', key) \in Members(ring')]_vars

\* A node was removed from a ring without re-Add or collision; before (the
\* ring with the node added back) it owned one key and another node owned
\* another key, which that node still owns.
C16_Witness ==
    /\ rret.op = "remove" /\ ~rret.err /\ rret.node # 0
    /\ ~ringReAdd /\ ~ringCollide
    /\ ring.nodeReplicas[rret.node] = 0
    /\ ~Collides(MapAdd(ring, <<rret.node>>).m)
    /\ \E k1, k2 \in Keys :
          /\ Owner(MapAdd(ring, <<rret.node>>).m, k1) = rret.node
          /\ Owner(ring, k1) \in Members(ring)
          /\ Owner(MapAdd(ring, <<rret.node>>).m, k2) # rret.node
          /\ Owner(ring, k2) = Owner(MapAdd(ring, <<rret.node>>).m, k2)

Holds(c, key) ==
    /\ c.initialized
    /\ IF c.type = "lru2" THEN Live(c.store[1], key) \/ Live(c.store[2], key)
       ELSE InItems(c.store, key)

\* A client's Get has just returned the getter's error: it returns no value,
\* the node's loaderErrors has gone up by one, and the key has not come into
\* the node's store.
GetFailed ==
    (nops' = nops + 1 /\ glast'.op = "get" /\ glast'.err = "getter") =>
        /\ glast'.val = 0
        /\ grp'[glast'.node].loaderErrors = grp[glast'.node].loaderErrors + 1
        /\ Holds(cache'[glast'.node], glast'.key)
               => Holds(cache[glast'.node], glast'.key)

\* The step is the next Get of the same key on the same node after a Get that
\* returned the getter's error.
GetAfterFailure ==
    /\ nops' = nops + 1 /\ glast'.op = "get"
    /\ glast.op = "get" /\ glast.err = "getter"
    /\ glast'.node = glast.node /\ glast'.key = glast.key

\* C18 as stated: a Get whose getter fails returns the wrapped error, counts
\* it in loaderErrors and adds nothing to the local store, and the next Get of
\* the key invokes the getter again.
C18_Original ==
    [][GetFailed /\ (GetAfterFailure => glast'.getter)]_vars

\* C18 as amended: the same, and the next Get of the key on that node, when it
\* returns, is no local hit: it loads again, taking the value from the owning
\* peer when that answers and invoking the getter otherwise.
C18_NoNegativeCache ==
    [][/\ GetFailed
       /\ (GetAfterFailure /\ ~glast'.hung) =>
              (/\ ~glast'.localHit
               /\ \/ glast'.getter
                  \/ glast'.err = "" /\ glast'.val # 0)]_vars

\* Two Gets in a row have failed on one node: the getter ran both times and
\* both errors are counted.
C18_Witness ==
    /\ glast.op = "get" /\ glast.err = "getter" /\ glast.getter
    /\ glast.node # 0 /\ grp[glast.node].loaderErrors = 2
    /\ ~Holds(cache[glast.node], glast.key)

\* The error Group.Get, Set and Delete owe for their arguments ("": none).
Owed(g, op, key, value) ==
    IF g.closed THEN "closed"
    ELSE IF key = 0 THEN "key"
    ELSE IF op = "set" /\ value = 0 THEN "value"
    ELSE ""

\* C19: a client's Get, Set or Delete returns GroupClosed on a closed group
\* before anything else, KeyRequired for an empty key and, for Set,
\* ValueRequired for an empty value; in each case the stores, the stats, the
\* goroutines and the requests to peers stay as they were and no getter runs.
C19_Rejected ==
    [][(nops' = nops + 1 /\ glast'.op \in {"get", "set", "delete"}) =>
          LET owed == Owed(grp[glast'.node], glast'.op, glast'.key,
                           IF glast'.op = "set" THEN glast'.val ELSE 0)
          IN  IF owed # ""
              THEN /\ glast'.err = owed
                   /\ ~glast'.getter /\ ~glast'.localHit /\ ~glast'.hung
                   /\ UNCHANGED <<grp, cache, tasks, net, rpcs, gstored>>
              ELSE glast'.err \notin {"closed", "key", "value"}]_vars

\* A Set with an empty value was refused on a node whose store holds the key.
C19_Witness ==
    /\ glast.op = "set" /\ glast.err = "value" /\ glast.key # 0
    /\ Holds(cache[glast.node], glast.key)

\* The Group registered last under the name (0: none yet).
Latest(name) ==
    IF \E g \in 1..Len(gobjs) : gobjs[g].name = name
    THEN CHOOSE g \in 1..Len(gobjs) :
            /\ gobjs[g].name = name
            /\ \A h \in 1..Len(gobjs) : gobjs[h].name = name => h <= g
    ELSE 0

\* C20: after any NewGroup and Close calls the registry maps a name to the
\* Group registered last under it for as long as that Group is open; closing
\* a Group that a later NewGroup replaced leaves the replacement registered.
C20_Registry ==
    \A name \in Names :
        (Latest(name) # 0 /\ ~gobjs[Latest(name)].closed)
            => GetGroup(name) = Latest(name)

\* The rebalance pass of a tick changes the replica count of some node.
Resizes(m) ==
    /\ NeedsRebalance(m)
    /\ \E nd \in Counted(m) \ {0} : newReplicas(m, nd) # m.nodeReplicas[nd]

\* C21: a tick whose rebalance pass changes a node's replica count ends with
\* the ring lock released and with every node counter and totalRequests at
\* zero (a ring operation called afterwards waits for that lock).
C21_RebalanceTerminates ==
    [][(/\ nops' = nops + 1
        /\ rret'.op = "tick"
        /\ Resizes(ring)) =>
           (/\ ~ring'.locked
            /\ ring'.totalRequests = 0
            /\ \A nd \in 0..NNodes : ring'.nodeCounts[nd] \in {-1, 0})]_vars

\* The Do call a (an index of sfLog) began before the Do call b and its fn had
\* returned when b began.
FnReturnedBefore(a, b) == a < b /\ a \notin sfLog[b].must

\* C22: a Do that begins when no call for its key is still to produce its
\* result does not find a record to wait on and goes on to run fn itself, and
\* the g.m.Delete of a call removes no record made by a Do that began after
\* that call's fn had returned.
C22_FreshAfterReturn ==
    [][/\ \A c \in Callers, k \in SFKeys :
             (SFLoad(c, k) /\ InFlight(k) = {}) => sfpc'[c] = "new"
       /\ \A c \in Callers :
             (SFDelete(c) /\ sfm[sfkey[c]] # 0) =>
                 ~FnReturnedBefore(sfInst[c], sfCalls[sfm[sfkey[c]]].by)]_vars

\* No goroutine is inside Get.
GetsDone == \A q \in Getters : rgProc[q].pc = "idle"

RECURSIVE SumCounts(_, _)
SumCounts(m, nodes) ==
    IF nodes = {} THEN 0
    ELSE LET nd == CHOOSE x \in nodes : TRUE
         IN  (IF m.nodeCounts[nd] = -1 THEN 0 ELSE m.nodeCounts[nd])
                 + SumCounts(m, nodes \ {nd})

\* C23: no two Gets are inside an assignment to nodeCounts at the same time,
\* the process is not stopped, and when the Gets are done the node counters add
\* up to totalRequests, the number of Gets that returned a node.
C23_NoLostIncrement ==
    /\ Cardinality({q \in Getters : rgProc[q].pc = "writing"}) <= 1
    /\ ~rgCrash
    /\ GetsDone =>
          /\ SumCounts(ring, 0..NNodes) = ring.totalRequests
          /\ ring.totalRequests = rgRet

\* The replica count a rebalance pass owes a node of the ring: with count the
\* requests observed for it (none: 0) and avg = totalRequests / N,
\* floor(replicas * avg / count) when count > avg and
\* floor(replicas * (2 - count / avg)) otherwise, within the configured range.
OwedReplicas(m, node) ==
    LET count == IF m.nodeCounts[node] = -1 THEN 0 ELSE m.nodeCounts[node]
        nn == NodeCount(m)
        cur == m.nodeReplicas[node]
        raw == IF count * nn > m.totalRequests
               THEN (cur * m.totalRequests) \div (count * nn)
               ELSE (cur * (2 * m.totalRequests - count * nn)) \div m.totalRequests
    IN  Clamp(raw, m.minReplicas, MaxReplicas)

\* C24: a tick that finds the ring out of balance leaves every node of the
\* ring with the replica count computed from its observed count and the
\* average, a value between the configured minimum and maximum.
C24_Recomputed ==
    [][(/\ nops' = nops + 1
        /\ rret'.op = "tick"
        /\ NeedsRebalance(ring)) =>
           \A nd \in Nodes :
               ring.nodeReplicas[nd] # 0 =>
                   /\ ring'.nodeReplicas[nd] = OwedReplicas(ring, nd)
                   /\ ring'.nodeReplicas[nd] >= ring.minReplicas
                   /\ ring'.nodeReplicas[nd] <= MaxReplicas]_vars

\* Nothing of the node is left in the map m1 that Remove made of the map m.
Gone(m, m1, node) ==
    /\ \A i \in 0..(m.nodeReplicas[node] - 1) :
           \A j \in 1..Len(m1.keys) : m1.keys[j] # HashNode(node, i)
    /\ \A h \in Hashes : m1.hashMap[h] # node
    /\ m1.nodeReplicas[node] = 0
    /\ m1.nodeCounts[node] = -1
    /\ \A j \in 1..Len(m1.keys) : m1.hashMap[m1.keys[j]] \in Members(m1)

\* A Remove that returns no error leaves nothing of its node, and a Get returns
\* "" or a node of the ring, when pre holds.
RemoveClean(pre) ==
    /\ \A node \in Nodes :
           (RingRemove(node) /\ ~rret'.err /\ pre) => Gone(ring, ring', node)
    /\ (nops' = nops + 1 /\ rret'.op = "get") =>
           rret'.node \in Members(ring) \cup {0}

\* C25 as stated: no entry of a node survives its Remove, and no Get returns a
\* node that is not in the ring.
C25_Original == [][RemoveClean(TRUE)]_vars

\* C25 as amended: the same, as long as Add was never given a node that was
\* already in the ring and no two virtual nodes in the ring shared a hash.
C25_RemoveClean == [][RemoveClean(~ringReAdd /\ ~ringCollide)]_vars

\* A node that Gets had counted was removed from a ring that keeps another
\* node, with no re-Add and no collision before.
C25_Witness ==
    /\ rret.op = "remove" /\ ~rret.err /\ rret.node # 0
    /\ ~ringReAdd /\ ~ringCollide
    /\ Members(ring) # {}
    /\ ring.totalRequests > 0
    /\ ring.nodeCounts[rret.node] = -1

\* The expireAt of the entry a Get of key finds in the shard: the live entry of
\* the admission level, else the live entry of the main level (0: none).
FoundExpireAt(s, key) ==
    IF Live(s[1], key) THEN s[1].m[s[1].hmap[key]].expireAt
    ELSE IF Live(s[2], key) THEN s[2].m[s[2].hmap[key]].expireAt
    ELSE 0

\* walk visits key in the level.
Walked(c, key) == \E i \in 1..Len(walk(c)) : walk(c)[i] = key

\* C26: a Get that finds its key expired, in either level, reports a miss and
\* leaves the key live in neither level, so that walk and Len pass it over.
C26_ExpiredDeleted ==
    [][\A key \in Keys :
          (/\ L2Get(key)
           /\ FoundExpireAt(lru2, key) > 0
           /\ Now >= FoundExpireAt(lru2, key)) =>
              /\ ~l2ret'.ok
              /\ ~Live(lru2'[1], key) /\ ~Live(lru2'[2], key)
              /\ ~Walked(lru2'[1], key) /\ ~Walked(lru2'[2], key)]_vars

\* The number of calls of onEvicted for key among the calls ev.
Calls(ev, key) == Cardinality({i \in 1..Len(ev) : ev[i].k = key})

\* key is live in some level of the shard.
InStore(s, key) == Live(s[1], key) \/ Live(s[2], key)

\* C27: an operation calls onEvicted once for every key that was live in the
\* shard and is live in neither level afterwards (the key a Set writes apart),
\* at most once for any key, only for a key whose live entry left a level, and
\* not for the key that a Get promotes or a Set writes.
C27_EvictedOnce ==
    [][(nops' = nops + 1 /\ l2ret'.op # "none") =>
          \A key \in Keys :
              /\ (/\ InStore(lru2, key) /\ ~InStore(lru2', key)
                  /\ ~(l2ret'.op = "set" /\ l2ret'.key = key)) =>
                     Calls(l2ret'.ev, key) = 1
              /\ Calls(l2ret'.ev, key) <= 1
              /\ Calls(l2ret'.ev, key) = 1 =>
                     \E l \in {1, 2} : Live(lru2[l], key) /\ ~Live(lru2'[l], key)
              /\ (l2ret'.key = key /\ l2ret'.op = "set") =>
                     Calls(l2ret'.ev, key) = 0
              /\ (l2ret'.key = key /\ l2ret'.op = "get" /\ l2ret'.ok) =>
                     Calls(l2ret'.ev, key) = 0]_vars

\* x is a power of two.
RECURSIVE PowerOf2(_)
PowerOf2(x) == x = 1 \/ (x > 1 /\ x % 2 = 0 /\ PowerOf2(x \div 2))

\* C28: the store has mask + 1 shards, a power of two that is at least the
\* configured count, and the index computed for a key is an index of a shard:
\* 0 <= index <= mask, whatever the sign of the hash.
C28_ValidIndex ==
    /\ shStore # NoStore =>
          /\ shStore.shards = shStore.mask + 1
          /\ PowerOf2(shStore.shards)
          /\ shStore.shards >= shStore.count
    /\ shRet.op = "lock" =>
          /\ 0 <= shRet.idx /\ shRet.idx <= shStore.mask
          /\ shRet.idx < shStore.shards
          /\ ~shRet.panic

\* The slots met from slot idx along the next links, up to the sentinel.
RECURSIVE Chain(_, _, _)
Chain(c, idx, fuel) ==
    IF idx = 0 \/ fuel = 0 THEN <<>>
    ELSE <<idx>> \o Chain(c, c.dlnk[idx][n], fuel - 1)

\* The level's list and map are well formed.
LevelWF(c) ==
    LET ch == Chain(c, c.dlnk[0][n], c.cap + 1)
    IN  /\ c.last <= c.cap
        /\ Len(ch) = c.last
        /\ {ch[i] : i \in 1..Len(ch)} = 1..c.last
        /\ \A i \in 0..c.last :
               /\ c.dlnk[i][n] \in 0..c.last /\ c.dlnk[i][p] \in 0..c.last
               /\ c.dlnk[c.dlnk[i][n]][p] = i
               /\ c.dlnk[c.dlnk[i][p]][n] = i
        /\ \A k \in Keys :
               c.hmap[k] # 0 => (c.hmap[k] \in 1..c.last /\ c.m[c.hmap[k]].k = k)
        /\ \A k1, k2 \in Keys :
               (k1 # k2 /\ c.hmap[k1] # 0) => c.hmap[k1] # c.hmap[k2]

\* C29: put, get and del never lower last, and leave the level with last at
\* most its capacity, its links one ring through the sentinel that holds each
\* slot 1..last once, next and prev inverse to each other, and hmap leading
\* distinct keys to distinct slots that store them.
C29_LevelInvariant ==
    [][/\ lru2'[1].last >= lru2[1].last
       /\ LevelWF(lru2'[1])]_vars

\* The level is full, its last put took the slot of a live entry, and one of
\* its slots holds a deleted entry.
C29_Witness ==
    /\ l2ret.op = "put" /\ l2ret.ev # <<>>
    /\ lru2[1].last = lru2[1].cap
    /\ \E k \in Keys : lru2[1].hmap[k] # 0 /\ ~Live(lru2[1], k)

\* C30: a Get that hits returns the value of the most recent Set of its key.
C30_NoStaleValue ==
    (l2ret.op = "get" /\ l2ret.ok) => l2ret.v = l2set[l2ret.key]

\* C31: every operation of the LRU store gives the store lock back before it
\* returns: a Get that hits a present, unexpired key leaves c.mu free, so the
\* next Get, Set, Delete, Len or sweeper pass can take it.
C31_LockReleased ==
    [][\A key \in Keys :
          (LRUGet(key) /\ Fresh(lru, key, now)) => ~lru'.mu]_vars

\* C32: DestroyGroup of a name under which an open Group is registered, and
\* DestroyAllGroups with at least one Group registered, return with the
\* Group(s) closed and out of the registry and with the registry lock free.
C32_DestroyTerminates ==
    [][/\ \A name \in Names :
            (/\ RegDestroyGroup(name)
             /\ groups[name] # 0
             /\ ~gobjs[groups[name]].closed)
            => /\ ~groupsMu'
               /\ groups'[name] = 0
               /\ gobjs'[groups[name]].closed
       /\ (/\ RegDestroyAllGroups
           /\ \E nm \in Names : groups[nm] # 0)
          => /\ ~groupsMu'
             /\ \A nm \in Names :
                   /\ groups'[nm] = 0
                   /\ groups[nm] # 0 => gobjs'[groups[nm]].closed]_vars

\* The keys whose slot in the level holds a deleted entry.
Tombstones(c) == {k \in Keys : c.hmap[k] # 0 /\ ~Live(c, k)}

\* C33: after any Sets, Gets and Deletes, a new key that enters a full level
\* which holds a deleted slot takes a deleted slot: every entry that was live
\* in the level is still live in it.
C33_TombstoneFirst ==
    [][\A i \in 1..2, key \in Keys :
          (/\ lru2[i].last = lru2[i].cap
           /\ lru2[i].hmap[key] = 0
           /\ lru2'[i].hmap[key] # 0
           /\ Tombstones(lru2[i]) # {})
          => \A k \in Keys : Live(lru2[i], k) => Live(lru2'[i], k)]_vars

====
